---- MODULE Spec2Model ----
(***************************************************************************)
(* Verification model of the UBO tool: the share text parser               *)
(* (importer/ownership_resolve_online.py, app.py), the recursive ownership *)
(* resolver resolve_tree_online, the aggregator compute_effective_persons  *)
(* and the UBO classification of app.py.                                   *)
(*                                                                         *)
(* Numbers.  Python floats are modelled by exact non-negative rationals    *)
(* <<n, d>> in lowest terms; None is the empty tuple.                      *)
(*                                                                         *)
(* Texts.  A text is a sequence of tokens [k, n].  A maximal run of digits *)
(* is one token of kind "num" with value n and d digits (every pattern of  *)
(* the source begins a number with a greedy \d+ and ends it before a       *)
(* non-digit, so a digit run is never split by a match).  A keyword with   *)
(* its colon                                                               *)
(* ("obchodni_podil:", "hlasovaci_prava:", "splaceno:") is one token, as   *)
(* are "PROCENTA", the word "efektivně" and any other word.                *)
(***************************************************************************)
EXTENDS Integers, Sequences, FiniteSets, TLC

VARIABLES
    ptext,      \* parser: the input text s
    pres,       \* parser: result of parse_pct_from_text(s)
    peff,       \* parser: result of parse_effective_from_text(s)
    pfields,    \* parser: number of phrases fed into the text so far
    pdone       \* parser: "input", or the name of the function that has returned

VARIABLES
    max_depth,          \* resolver: argument max_depth
    manual_overrides,   \* resolver: argument manual_overrides, per target id
    cache,              \* gateway: the answers AresVrClient has cached, per IČO
    calls,              \* gateway: the IČOs client.get_vr was called with, in order
    lines,              \* resolver: the NodeLine list
    chains,             \* resolver: for each line, the local shares from the root down to it
    warnings,           \* resolver: the warning list
    stack,              \* resolver: the active calls of walk_cz_company / walk_foreign
    rstatus             \* resolver: "idle", "running", "returned" or "raised"

VARIABLES
    persons,                    \* aggregator: name -> [ownership, voting]
    debug_paths,                \* aggregator: name -> the list entry["debug_paths"]
    header_stack,               \* aggregator: [(header_depth, multiplier)]
    pending_next_header_mult,   \* aggregator: the multiplier kept for the next header
    aidx,                       \* aggregator: the position of the next line of the loop
    astatus                     \* aggregator: "idle", "scanning" or "returned"

VARIABLES
    form,               \* classification: per computed person, the fields of ubo_form
    manual_persons,     \* classification: st.session_state["manual_persons"]
    threshold_pct,      \* classification: the threshold field, in percent
    block_members,      \* classification: the members chosen for the voting block
    final_persons,      \* classification: name -> cap, vote and flags
    ubo,                \* classification: the names in the dict ubo
    reasons,            \* classification: name -> list of reasons
    totals,             \* classification: cap_ok and vote_ok
    cstatus             \* classification: "idle", "form" or "evaluated"

VARIABLES
    ubo_overrides,          \* session: st.session_state["ubo_overrides"] (voting), name -> fraction
    ubo_cap_overrides,      \* session: st.session_state["ubo_cap_overrides"], name -> fraction
    threshold_pct_last,     \* session: the threshold of the last evaluation, in percent
    block_members_last,     \* session: the voting block of the last evaluation
    block_name_last,        \* session: the block's name at the last evaluation
    block_name,             \* classification: the text field with the block's name
    manual_company_owners,  \* session: target IČO -> list of {"ico", "share"}
    xml,                    \* the document export_state_to_xml_bytes produced last, or None
    at_export,              \* the adjustment state of the session when xml was produced
    sstatus                 \* session: "live", or "imported" after import_state_from_xml_bytes

VARIABLES
    gico,       \* get_vr: the normalized identifier asked for
    gforce,     \* get_vr: force_refresh
    gattempt,   \* get_vr: the attempts made so far by the running call
    grequests,  \* get_vr: the HTTP requests issued so far by the running call
    gcache,     \* get_vr: the rows of the table ares_vr_cache, IČO -> payload
    gresult,    \* get_vr: what the last call returned, or None
    gstatus     \* get_vr: "idle", "running", "returned" or "raised"

pvars == <<ptext, pres, peff, pfields, pdone>>
rvars == <<max_depth, manual_overrides, cache, calls, lines, chains, warnings, stack, rstatus>>

avars == <<persons, debug_paths, header_stack, pending_next_header_mult, aidx, astatus>>
svars == <<ubo_overrides, ubo_cap_overrides, threshold_pct_last, block_members_last,
           block_name_last, block_name, manual_company_owners, xml, at_export, sstatus>>
gvars == <<gico, gforce, gattempt, grequests, gcache, gresult, gstatus>>
cvars == <<form, manual_persons, threshold_pct, block_members, final_persons, ubo, reasons,
           totals, cstatus, svars, gvars>>

vars == <<pvars, rvars, avars, cvars>>

\* the components that take no part in a specification stay as they are here
ParserIdle ==
    /\ ptext = <<>>
    /\ pres = <<>>
    /\ peff = <<>>
    /\ pfields = 0
    /\ pdone = "idle"

ResolverIdle ==
    /\ max_depth = 0
    /\ manual_overrides = <<>>
    /\ cache = <<>>
    /\ calls = <<>>
    /\ lines = <<>>
    /\ chains = <<>>
    /\ warnings = <<>>
    /\ stack = <<>>
    /\ rstatus = "idle"

AggregatorIdle ==
    /\ persons = <<>>
    /\ debug_paths = <<>>
    /\ header_stack = <<>>
    /\ pending_next_header_mult = <<>>
    /\ aidx = 0
    /\ astatus = "idle"

\* ss_default(...): the session before anything was entered
SessionIdle ==
    /\ ubo_overrides = <<>>
    /\ ubo_cap_overrides = <<>>
    /\ threshold_pct_last = <<25, 1>>
    /\ block_members_last = {}
    /\ block_name_last = "Voting Block 1"
    /\ block_name = "Voting Block 1"
    /\ manual_company_owners = <<>>
    /\ xml = <<>>
    /\ at_export = <<>>
    /\ sstatus = "live"

GatewayIdle ==
    /\ gico = ""
    /\ gforce = FALSE
    /\ gattempt = 0
    /\ grequests = 0
    /\ gcache = <<>>
    /\ gresult = <<>>
    /\ gstatus = "idle"

ClassifierIdle ==
    /\ SessionIdle
    /\ GatewayIdle
    /\ form = <<>>
    /\ manual_persons = <<>>
    /\ threshold_pct = <<>>
    /\ block_members = {}
    /\ final_persons = <<>>
    /\ ubo = {}
    /\ reasons = <<>>
    /\ totals = <<>>
    /\ cstatus = "idle"

(***************************************************************************)
(* Rationals                                                               *)
(***************************************************************************)
None == <<>>

RECURSIVE GCD(_, _)
GCD(a, b) == IF b = 0 THEN a ELSE GCD(b, a % b)

Rat(n, d) == LET g == GCD(n, d) IN <<n \div g, d \div g>>

RZero == <<0, 1>>
ROne == <<1, 1>>
RAdd(x, y) == Rat(x[1] * y[2] + y[1] * x[2], x[2] * y[2])
RMul(x, y) == Rat(x[1] * y[1], x[2] * y[2])
RDiv(x, y) == Rat(x[1] * y[2], x[2] * y[1])
RLe(x, y) == x[1] * y[2] <= y[1] * x[2]
RLt(x, y) == x[1] * y[2] < y[1] * x[2]
RMin(x, y) == IF RLe(x, y) THEN x ELSE y
RMax(x, y) == IF RLe(x, y) THEN y ELSE x
RHundred == <<100, 1>>

\* max(0.0, min(1.0, x))
Clamp01(x) == RMax(RZero, RMin(ROne, x))

(***************************************************************************)
(* Tokens                                                                  *)
(***************************************************************************)
RECURSIVE Digits(_)
\* the number of decimal digits of v
Digits(v) == IF v < 10 THEN 1 ELSE 1 + Digits(v \div 10)

RECURSIVE Pow10(_)
Pow10(e) == IF e = 0 THEN 1 ELSE 10 * Pow10(e - 1)

Num(v) == [k |-> "num", n |-> v, d |-> Digits(v), s |-> ""]
Sym(c) == [k |-> c, n |-> 0, d |-> 0, s |-> ""]
\* a name or other word without digits and without pattern characters
Word(w) == [k |-> "word", n |-> 0, d |-> 0, s |-> w]
\* a digit run given with its number of digits (leading zeros)
Digs(v, len) == [k |-> "num", n |-> v, d |-> len, s |-> ""]

\* string concatenation: two digit runs that meet become one digit run
Concat(s, t) ==
    IF s # <<>> /\ t # <<>> /\ s[Len(s)].k = "num" /\ Head(t).k = "num"
    THEN SubSeq(s, 1, Len(s) - 1)
         \o <<Digs(s[Len(s)].n * Pow10(Head(t).d) + Head(t).n,
                   s[Len(s)].d + Head(t).d)>>
         \o Tail(t)
    ELSE s \o t

\* float("a.b") after the replacement of "," and ";" by "."
DecVal(a, b) == RAdd(<<a.n, 1>>, Rat(b.n, Pow10(b.d)))

IsNum(s, i) == i <= Len(s) /\ s[i].k = "num"
IsKind(s, i, ks) == i <= Len(s) /\ s[i].k \in ks

RECURSIVE SkipWs(_, _)
\* \s* from position i: the position after the white space
SkipWs(s, i) == IF IsKind(s, i, {" "}) THEN SkipWs(s, i + 1) ELSE i

NoMatch == [ok |-> FALSE, end |-> 0, a |-> RZero, b |-> RZero]

\* (\d+(?:[.,;]\d+)?) at position i; a is the value of _to_float(group)
DecimalAt(s, i) ==
    IF ~IsNum(s, i) THEN NoMatch
    ELSE IF IsKind(s, i + 1, {".", ",", ";"}) /\ IsNum(s, i + 2)
         THEN [ok |-> TRUE, end |-> i + 3, a |-> DecVal(s[i], s[i + 2]), b |-> ROne]
         ELSE [ok |-> TRUE, end |-> i + 1, a |-> <<s[i].n, 1>>, b |-> ROne]

\* (\d+(?:[.,;]\d+)?)\s*<unit> at position i
PctAt(s, i, units) ==
    LET d == DecimalAt(s, i)
        j == SkipWs(s, d.end)
    IN IF d.ok /\ IsKind(s, j, units)
       THEN [ok |-> TRUE, end |-> j + 1, a |-> d.a, b |-> ROne]
       ELSE NoMatch

\* (\d+)\s*<sep>\s*(\d+) at position i
FracAt(s, i, seps) ==
    LET j == SkipWs(s, i + 1)
        j2 == SkipWs(s, j + 1)
    IN IF IsNum(s, i) /\ IsKind(s, j, seps) /\ IsNum(s, j2)
       THEN [ok |-> TRUE, end |-> j2 + 1, a |-> <<s[i].n, 1>>, b |-> <<s[j2].n, 1>>]
       ELSE NoMatch

\* <keyword>\s*:\s* at position i, then the rest of the pattern
KwAt(s, i, kw) == IF IsKind(s, i, {kw}) THEN SkipWs(s, i + 1) ELSE 0

\* re.match of the named pattern at position i
MatchAt(p, s, i) ==
    CASE p = "PCT_RE" -> PctAt(s, i, {"%"})
      [] p = "PROCENTA_RE" -> PctAt(s, i, {"P"})
      [] p = "FRAC_SLASH_RE" -> FracAt(s, i, {"/"})
      [] p = "FRAC_SEMI_RE" -> FracAt(s, i, {";"})
      [] p = "OBCHODNI_PODIL_FRAC_RE" ->
            IF KwAt(s, i, "OP") = 0 THEN NoMatch ELSE FracAt(s, KwAt(s, i, "OP"), {"/", ";"})
      [] p = "OBCHODNI_PODIL_PCT_RE" ->
            IF KwAt(s, i, "OP") = 0 THEN NoMatch ELSE PctAt(s, KwAt(s, i, "OP"), {"%", "P"})
      [] p = "HLASOVACI_PRAVA_PCT_RE" ->
            IF KwAt(s, i, "HP") = 0 THEN NoMatch ELSE PctAt(s, KwAt(s, i, "HP"), {"%", "P"})
      [] p = "SPLACENO_FIELD_RE" ->
            IF KwAt(s, i, "SPL") = 0 THEN NoMatch ELSE PctAt(s, KwAt(s, i, "SPL"), {"P"})
      [] p = "EFEKTIVNE_RE" ->
            \* efektivně\s+ needs at least one white space
            IF IsKind(s, i, {"EF"}) /\ IsKind(s, i + 1, {" "})
            THEN PctAt(s, SkipWs(s, i + 1), {"%"})
            ELSE NoMatch

RECURSIVE FindIter(_, _, _)
\* pattern.finditer(s): leftmost non-overlapping matches from position i on
FindIter(p, s, i) ==
    IF i > Len(s) THEN <<>>
    ELSE LET m == MatchAt(p, s, i)
         IN IF m.ok THEN <<m>> \o FindIter(p, s, m.end)
            ELSE FindIter(p, s, i + 1)

RECURSIVE Sub(_, _, _)
\* pattern.sub("", s): the text around a removed match is joined
Sub(p, s, i) ==
    IF i > Len(s) THEN <<>>
    ELSE LET m == MatchAt(p, s, i)
         IN IF m.ok THEN Sub(p, s, m.end)
            ELSE Concat(<<s[i]>>, Sub(p, s, i + 1))

RECURSIVE LStrip(_)
LStrip(s) == IF s # <<>> /\ Head(s).k = " " THEN LStrip(Tail(s)) ELSE s

RECURSIVE RStrip(_)
RStrip(s) == IF s # <<>> /\ s[Len(s)].k = " " THEN RStrip(SubSeq(s, 1, Len(s) - 1)) ELSE s

\* (s or "").strip()
Strip(s) == RStrip(LStrip(s))

(***************************************************************************)
(* parse_pct_from_text / parse_effective_from_text                         *)
(***************************************************************************)
\* what a raised ZeroDivisionError leaves instead of a value
Raised == <<0, 0>>

\* Python's a / b
PyDiv(a, b) == IF b = RZero THEN Raised ELSE RDiv(a, b)

FracTermUnguarded(m) == <<PyDiv(m.a, m.b)>>

\* "if a is not None and b and b != 0: total += (a / b); found = True"
FracTerm(m) == IF m.b # RZero THEN <<PyDiv(m.a, m.b)>> ELSE <<>>

\* "if v is not None: total += (v / 100.0); found = True"
PctTerm(m) == <<PyDiv(m.a, RHundred)>>

RECURSIVE FracTerms(_)
FracTerms(ms) == IF ms = <<>> THEN <<>> ELSE FracTerm(Head(ms)) \o FracTerms(Tail(ms))

RECURSIVE PctTerms(_)
PctTerms(ms) == IF ms = <<>> THEN <<>> ELSE PctTerm(Head(ms)) \o PctTerms(Tail(ms))

RECURSIVE SumTerms(_)
\* the running total of one tier; an exception raised by a term propagates
SumTerms(ts) ==
    IF ts = <<>> THEN RZero
    ELSE LET rest == SumTerms(Tail(ts))
         IN IF Head(ts) = Raised \/ rest = Raised THEN Raised
            ELSE RAdd(Head(ts), rest)

\* the text the tiers are applied to: stripped, 'splaceno: N PROCENTA' removed
Cleaned(s) == Sub("SPLACENO_FIELD_RE", Strip(s), 1)

\* the counted occurrences of each tier, in the order the loops add them
Tier1Terms(s) == FracTerms(FindIter("OBCHODNI_PODIL_FRAC_RE", s, 1))
                 \o PctTerms(FindIter("OBCHODNI_PODIL_PCT_RE", s, 1))
Tier2Terms(s) == PctTerms(FindIter("HLASOVACI_PRAVA_PCT_RE", s, 1))
Tier3Terms(s) == FracTerms(FindIter("FRAC_SLASH_RE", s, 1))
                 \o FracTerms(FindIter("FRAC_SEMI_RE", s, 1))
Tier4Terms(s) == PctTerms(FindIter("PCT_RE", s, 1))
                 \o PctTerms(FindIter("PROCENTA_RE", s, 1))

\* "return max(0.0, min(1.0, total))"
ClampTotal(total) == IF total = Raised THEN Raised ELSE Clamp01(total)
TierResult(ts) == ClampTotal(SumTerms(ts))

\* the four tiers, in the order the code tries them
TierTerms(s) == <<Tier1Terms(s), Tier2Terms(s), Tier3Terms(s), Tier4Terms(s)>>

\* the first tier that counted an occurrence decides; "return None" after the last
FirstTier(t) ==
    IF t[1] # <<>> THEN TierResult(t[1])
    ELSE IF t[2] # <<>> THEN TierResult(t[2])
    ELSE IF t[3] # <<>> THEN TierResult(t[3])
    ELSE IF t[4] # <<>> THEN TierResult(t[4])
    ELSE None

\* every tier's occurrences added up
AllTiers(t) == IF t[1] \o t[2] \o t[3] \o t[4] # <<>>
               THEN TierResult(t[1] \o t[2] \o t[3] \o t[4]) ELSE None

\* a parser whose tiers fall through: every tier's occurrences are added up
parse_pct_fallthrough(s0) ==
    IF Strip(s0) = <<>> THEN None ELSE AllTiers(TierTerms(Cleaned(s0)))

parse_pct_from_text(s0) ==
    IF Strip(s0) = <<>> THEN None ELSE FirstTier(TierTerms(Cleaned(s0)))

RECURSIVE Search(_, _, _)
\* pattern.search(s): the leftmost match, or NoMatch
Search(p, s, i) ==
    IF i > Len(s) THEN NoMatch
    ELSE LET m == MatchAt(p, s, i)
         IN IF m.ok THEN m ELSE Search(p, s, i + 1)

parse_effective_from_text(s0) ==
    LET m == Search("EFEKTIVNE_RE", Strip(s0), 1)
    IN IF m.ok THEN Clamp01(PyDiv(m.a, RHundred)) ELSE None

(***************************************************************************)
(* Parser inputs: a text is a concatenation of at most MaxFields phrases   *)
(***************************************************************************)
MaxFields == 2

Frac(a, sep, b) == <<Num(a), Sym(sep), Num(b)>>

\* number bodies: an integer, decimals, fractions (also with a zero
\* denominator, a value above 1 and white space inside)
FieldBodies ==
    {<<Num(7)>>, Frac(1, ",", 3), Frac(1, ";", 3), Frac(1, "/", 3), Frac(1, "/", 0),
     <<Num(3), Sym(" "), Sym("/"), Num(1)>>}

Bodies == FieldBodies \cup {Frac(1, ".", 3), Frac(1, ";", 0)}

Units == {<<>>, <<Sym("%")>>}

Phrases ==
    {<<Sym("OP")>> \o b \o u : b \in FieldBodies, u \in Units}
    \cup {b \o u : b \in Bodies, u \in Units}
    \cup {<<Sym("HP"), Sym(" ")>> \o b \o <<Sym("%")>> :
            b \in {<<Num(7)>>, Frac(1, ";", 3), Frac(1, "/", 3)}}
    \cup {<<Sym("HP"), Num(7)>>,
          <<Sym("SPL"), Num(7), Sym(" "), Sym("P")>>,
          <<Num(7), Sym(" "), Sym("P")>>,
          <<Sym("EF"), Sym(" "), Num(7), Sym(";"), Num(3), Sym(" "), Sym("%")>>,
          <<Sym("x")>>,
          <<Sym(" ")>>}

(***************************************************************************)
(* Parser specification                                                    *)
(***************************************************************************)
ParseInit ==
    /\ ptext = <<>>
    /\ pres = None
    /\ peff = None
    /\ pfields = 0
    /\ pdone = "input"
    /\ ResolverIdle
    /\ AggregatorIdle
    /\ ClassifierIdle

\* the caller extends the text
Feed ==
    /\ pdone = "input"
    /\ pfields < MaxFields
    /\ \E ph \in Phrases : ptext' = Concat(ptext, ph)
    /\ pfields' = pfields + 1
    /\ UNCHANGED <<pres, peff, pdone, rvars, avars, cvars>>

CallParsePct ==
    /\ pdone = "input"
    /\ pres' = parse_pct_from_text(ptext)
    /\ pdone' = "parse_pct_from_text"
    /\ UNCHANGED <<ptext, peff, pfields, rvars, avars, cvars>>

CallParseEffective ==
    /\ pdone = "input"
    /\ peff' = parse_effective_from_text(ptext)
    /\ pdone' = "parse_effective_from_text"
    /\ UNCHANGED <<ptext, pres, pfields, rvars, avars, cvars>>

ParseNext == Feed \/ CallParsePct \/ CallParseEffective

SpecParse == ParseInit /\ [][ParseNext]_vars

(***************************************************************************)
(* Claims about the parser                                                 *)
(***************************************************************************)
\* the first tier with a counted occurrence (0 when there is none), t being
\* the terms of the four tiers; an occurrence counts when the loops of the
\* source add it to the total, so a fraction with a zero denominator is no
\* occurrence
WinningTier(t) ==
    IF \A k \in 1..4 : t[k] = <<>> THEN 0
    ELSE CHOOSE k \in 1..4 : t[k] # <<>> /\ \A j \in 1..(k - 1) : t[j] = <<>>

\* C1: parse_pct_from_text returns the clamped sum of the occurrences of the
\* first tier (1 obchodni_podil, 2 hlasovaci_prava, 3 fractions, 4
\* percentages) that has a counted occurrence; occurrences of the tiers
\* after it do not contribute.
C1_TierPriority ==
    pdone = "parse_pct_from_text" =>
        LET t == TierTerms(Cleaned(ptext))
            w == WinningTier(t)
        IN w # 0 => pres = Clamp01(SumTerms(t[w]))

\* 'obchodni_podil: 1/3' together with a generic percentage yields 1/3
C1_Witness ==
    /\ pdone = "parse_pct_from_text"
    /\ Tier1Terms(Cleaned(ptext)) = <<(<<1, 3>>)>>
    /\ Tier4Terms(Cleaned(ptext)) # <<>>
    /\ pres = <<1, 3>>

InUnit(x) == x # Raised /\ RLe(RZero, x) /\ RLe(x, ROne)

\* C2: on every text the two parsers return without raising, either None
\* or a value of [0,1]; parse_pct_from_text returns None exactly when no
\* tier has a counted occurrence, and otherwise the clamp of a tier's total.
C2_TotalAndClamped ==
    /\ pdone = "parse_pct_from_text" =>
         LET t == TierTerms(Cleaned(ptext))
         IN /\ pres # Raised
            /\ pres = None \/ InUnit(pres)
            /\ (pres = None) <=> (\A k \in 1..4 : t[k] = <<>>)
            /\ pres # None =>
                 \E k \in 1..4 : t[k] # <<>> /\ pres = Clamp01(SumTerms(t[k]))
    /\ pdone = "parse_effective_from_text" =>
         /\ peff # Raised
         /\ peff = None \/ InUnit(peff)

\* a fraction with a zero denominator was matched and None was returned
C2_Witness ==
    /\ pdone = "parse_pct_from_text"
    /\ \E i \in 1..Len(ptext) :
          /\ MatchAt("FRAC_SLASH_RE", ptext, i).ok
          /\ MatchAt("FRAC_SLASH_RE", ptext, i).b = RZero
    /\ pres = None

\* the texts 'a<sep>b %' and 'obchodni_podil: a<sep>b %'
IsDecimalPct(s, sep) ==
    \/ /\ Len(s) = 4
       /\ s[1].k = "num" /\ s[2].k = sep /\ s[3].k = "num" /\ s[4].k = "%"
    \/ /\ Len(s) = 5
       /\ s[1].k = "OP"
       /\ s[2].k = "num" /\ s[3].k = sep /\ s[4].k = "num" /\ s[5].k = "%"

DecimalPctValue(s) ==
    LET i == IF s[1].k = "OP" THEN 2 ELSE 1
    IN Clamp01(RDiv(DecVal(s[i], s[i + 2]), RHundred))

\* C3: 'a,b %', 'a;b %' and 'a.b %' (also inside an obchodni_podil field)
\* all parse to min(1, (a.b)/100); the semicolon form is never read as the
\* fraction a/b.
C3_DecimalSeparators ==
    pdone = "parse_pct_from_text" =>
        \A sep \in {",", ";", "."} :
            IsDecimalPct(ptext, sep) => pres = DecimalPctValue(ptext)

(***************************************************************************)
(* resolve_tree_online: entities, gateway answers, manual overrides        *)
(***************************************************************************)
MaxOwners == 3
MaxDepthCeiling == 6

root_ico == "A"
Companies == {"A", "B"}
\* _norm_ico of a text without digits: "00000000"
JunkIco == "00000000"

IcoNumber(id) == CASE id = "A" -> 1 [] id = "B" -> 2 [] OTHER -> 0
\* the eight digits of an IČO
Ico(id) == Digs(IcoNumber(id), 8)

\* _norm_ico / re.sub(r"\D+", "", x).zfill(8)
NormIco(x) == IF x \in Companies THEN x ELSE JunkIco

Owner(kind, name, ico, share_pct, share_raw, label) ==
    [kind |-> kind, name |-> name, ico |-> ico, share_pct |-> share_pct,
     share_raw |-> share_raw, label |-> label]

SeqsUpTo(S, n) == UNION {[1..k -> S] : k \in 0..n}

\* the lists of at most n members of S in which no member occurs twice
ListsUpTo(S, n) ==
    {os \in SeqsUpTo(S, n) : \A i, j \in 1..Len(os) : os[i] = os[j] => i = j}

\* the owners the registry may report for a company
RegistryOwners(ico) ==
    CASE ico = "A" ->
           {Owner("PERSON", <<Word("P")>>, "", <<60, 1>>, <<>>, "Spolecnici"),
            Owner("COMPANY", <<Word("B")>>, "B", <<60, 1>>, <<>>, "Spolecnici"),
            Owner("PERSON", <<Word("Q")>>, "", None, <<>>, "Akcionari")}
      [] ico = "B" ->
           {Owner("PERSON", <<Word("P")>>, "", None, <<Num(50)>>, "Spolecnici"),
            Owner("COMPANY", <<Word("A")>>, "A", None, <<Num(50)>>, "Akcionari"),
            Owner("PERSON", <<Word("Q")>>, "", None,
                  <<Sym("EF"), Sym(" "), Num(40), Sym(" "), Sym("%")>>, "Spolecnici")}
      [] OTHER -> {}

NotCached == [outcome |-> "none", owners |-> <<>>]
ErrorPayload == [outcome |-> "error", owners |-> <<>>]
RaisedAnswer == [outcome |-> "raise", owners |-> <<>>]
OkPayload(os) == [outcome |-> "ok", owners |-> os]

\* what a request to the registry can end in: a record (HTTP 200), an
\* '_error' payload (HTTP 400/404), or RuntimeError after the retries
Answers(ico) ==
    {RaisedAnswer, ErrorPayload}
    \cup {OkPayload(os) : os \in ListsUpTo(RegistryOwners(ico), MaxOwners)}

\* AresVrClient.get_vr: the cached payload if there is one, else any answer
GetVrAnswers(ico) == IF cache[ico] # NotCached THEN {cache[ico]} ELSE Answers(ico)

\* the cache after get_vr returned a: 200 and 400/404 answers are stored
CachePut(ico, a) ==
    IF a.outcome \in {"ok", "error"} THEN [cache EXCEPT ![ico] = a] ELSE cache

\* extract_current_owners(payload): (c_ico, c_name, owners)
extract_current_owners(ico, payload) ==
    [c_ico |-> ico, c_name |-> ico, owners |-> payload.owners]

\* raw manual override items: the legacy pair (ico, share) and the dict
Pair(ico, share) ==
    [shape |-> "tuple", type |-> "", ico |-> ico, id |-> "", share |-> share, name |-> ""]
Dict(type, ico, id, share, name) ==
    [shape |-> "dict", type |-> type, ico |-> ico, id |-> id, share |-> share, name |-> name]

Targets == {"A", "B", "F"}
NoManual == [t \in Targets |-> <<>>]

RHalf == <<1, 2>>

\* the manual_overrides arguments tried
ManualChoices ==
    {NoManual,
     [NoManual EXCEPT !["A"] = <<Pair("B", RHalf)>>],
     [NoManual EXCEPT !["A"] = <<Dict("person", "", "", <<1, 4>>, "Q"),
                                  Dict("person", "", "", RZero, "P"),
                                  Dict("person", "", "", RHalf, "P")>>],
     [NoManual EXCEPT !["A"] = <<Dict("foreign", "", "F", RHalf, "")>>,
                      !["F"] = <<Dict("person", "", "", RHalf, "P"),
                                 Dict("company", "B", "", RHalf, "")>>],
     [NoManual EXCEPT !["B"] = <<Pair("A", RHalf), Pair("B", RZero)>>],
     [NoManual EXCEPT !["A"] = <<Dict("foreign", "", "F", RHalf, "")>>,
                      !["F"] = <<Pair("x", RHalf), Dict("company", "", "", RHalf, ""),
                                 Dict("person", "", "", RZero, "P"), Pair("B", RZero)>>],
     [NoManual EXCEPT !["A"] = <<Dict("foreign", "", "F", RHalf, ""),
                                  Dict("person", "", "", RHalf, "Q")>>,
                      !["F"] = <<Dict("person", "", "", RZero, "P")>>]}

\* (manual_overrides or {}).get(id, [])
ManualFor(mo, id) == IF id \in DOMAIN mo THEN mo[id] ELSE <<>>

MoItem(type, ico, id, share, name) ==
    [type |-> type, ico |-> ico, id |-> id, share |-> share, name |-> name]

\* _coerce_manual_overrides, one item: the canonical items it appends
CoerceItem(item) ==
    IF item.shape = "tuple"
    THEN <<MoItem("company", NormIco(item.ico), "", item.share, "")>>
    ELSE IF RLe(item.share, RZero) THEN <<>>
    ELSE CASE item.type = "company" ->
                IF item.ico # "" THEN <<MoItem("company", NormIco(item.ico), "", item.share, item.name)>>
                ELSE <<>>
           [] item.type = "foreign" ->
                IF item.id # "" THEN <<MoItem("foreign", "", item.id, item.share, item.name)>>
                ELSE <<>>
           [] item.type = "person" ->
                IF item.name # "" THEN <<MoItem("person", "", "", item.share, item.name)>>
                ELSE <<>>
           [] OTHER ->
                IF item.ico # "" THEN <<MoItem("company", NormIco(item.ico), "", item.share, item.name)>>
                ELSE IF item.id # "" THEN <<MoItem("foreign", "", item.id, item.share, item.name)>>
                ELSE IF item.name # "" THEN <<MoItem("person", "", "", item.share, item.name)>>
                ELSE <<>>

RECURSIVE CoerceList(_)
CoerceList(lst) == IF lst = <<>> THEN <<>> ELSE CoerceItem(Head(lst)) \o CoerceList(Tail(lst))

\* mo = _coerce_manual_overrides(manual_overrides)
_coerce_manual_overrides(raw) == [t \in DOMAIN raw |-> CoerceList(raw[t])]

\* x in hundredths, rounded to the nearest
Hundredths(x) == (200 * x[1] + x[2]) \div (2 * x[2])

\* f"{x:.2f}"
Fmt2(x) == <<Num(Hundredths(x) \div 100), Sym("."), Digs(Hundredths(x) % 100, 2)>>

\* float(f"{x:.2f}")
Round2(x) == Rat(Hundredths(x), 100)

\* f"velikost:{share*100.0:.2f} PROCENTA"
VelikostRaw(share) ==
    <<Word("velikost:")>> \o Fmt2(RMul(share, RHundred)) \o <<Sym(" "), Sym("P")>>

\* f"{oshare*100.0:.2f} %"
PercentRaw(share) == Fmt2(RMul(share, RHundred)) \o <<Sym(" "), Sym("%")>>

ManualLabel == "Manualne doplneno"

(***************************************************************************)
(* resolve_tree_online: owners, shares and line texts                      *)
(***************************************************************************)
LP == Sym("(")
RP == Sym(")")
Sp == Sym(" ")
\* the em dash between an owner's name and its share
Dash == Sym("DASH")
\* the warning sign that opens every diagnostic text
Warn == Sym("WARN")

\* the name the registry has for a company
CompanyName(ico) == <<Word(ico)>>
\* f"Společnost (IČO {ico})"
DefaultCompanyName(ico) == <<Word("Spolecnost"), Sp, LP, Word("ICO"), Sp, Ico(ico), RP>>
\* f"Zahraniční subjekt {fid}"
DefaultForeignName(fid) == <<Word("Zahranicni subjekt"), Sp, Word(fid)>>

NodeLine(depth, label, text, effective_pct) ==
    [depth |-> depth, label |-> label, text |-> text, effective_pct |-> effective_pct]

DepthLimitText == <<Warn, Sp, Word("Prekrocena max hloubka")>>
InvalidForeignText == <<Warn, Sp, Word("Neplatny identifikator zahranicniho subjektu")>>
\* f"⚠️ Nelze načíst ARES VR pro {ico_norm}: {payload.get('_error')}"
ErrorText(ico) ==
    <<Warn, Sp, Word("Nelze nacist ARES VR pro"), Sp, Ico(ico), Word(":"), Sp,
      Word("ARES HTTP"), Sp, Num(404)>>
\* f"{c_name} (IČO {c_ico})"
CzHeaderText(name, ico) == name \o <<Sp, LP, Word("ICO"), Sp, Ico(ico), RP>>
\* f"{nm} (ID {fid})"
ForeignHeaderText(name, fid) == name \o <<Sp, LP, Word("ID"), Sp, Word(fid), RP>>
\* f"{label}:"
LabelText(label) == <<Word(label), Word(":")>>

\* one canonical manual item as an owner (walk_foreign, the body of the loop
\* over mo.get(fid); name is the display name of a company item)
ManualOwner(it, name) ==
    IF RLe(it.share, RZero) THEN <<>>
    ELSE CASE it.type = "company" ->
                <<Owner("COMPANY", name, NormIco(it.ico), RMul(it.share, RHundred),
                        VelikostRaw(it.share), ManualLabel)>>
           [] it.type = "foreign" ->
                IF it.id = "" THEN <<>>
                ELSE <<Owner("FOREIGN",
                             IF it.name # "" THEN <<Word(it.name)>> ELSE DefaultForeignName(it.id),
                             it.id, RMul(it.share, RHundred), VelikostRaw(it.share), ManualLabel)>>
           [] it.type = "person" ->
                IF it.name = "" THEN <<>>
                ELSE <<Owner("PERSON", <<Word(it.name)>>, "", RMul(it.share, RHundred),
                             VelikostRaw(it.share), ManualLabel)>>
           [] OTHER -> <<>>

\* it.get("name") or f"Společnost (IČO {owner_ico})"
ItemCompanyName(it) ==
    IF it.name # "" THEN <<Word(it.name)>> ELSE DefaultCompanyName(NormIco(it.ico))

RECURSIVE manual_owners_from_mo(_)
\* walk_cz_company: the owners built from mo.get(c_ico)
manual_owners_from_mo(items) ==
    IF items = <<>> THEN <<>>
    ELSE ManualOwner(Head(items), ItemCompanyName(Head(items)))
         \o manual_owners_from_mo(Tail(items))

\* walk_cz_company, first loop: the IČO whose name item makes the code look
\* up, "" when the item needs no lookup
LegacyLookupIco(item) ==
    LET itype == IF item.shape = "tuple" \/ item.type = "" THEN "cz" ELSE item.type
        oid == IF item.shape = "tuple" THEN item.ico ELSE item.id
        oname == IF item.shape = "tuple" THEN "" ELSE item.name
    IN  IF RLe(item.share, RZero) THEN ""
        ELSE IF itype \in {"person", "foreign"} THEN ""
        ELSE IF oname = "" THEN NormIco(oid) ELSE ""

\* float(sr.replace(",", ".").replace(";", ".")) / 100 clamped, None when
\* float() raises
BareNumber(sr) ==
    IF Len(sr) = 1 /\ IsNum(sr, 1) THEN Clamp01(Rat(sr[1].n, 100))
    ELSE IF Len(sr) = 3 /\ IsNum(sr, 1) /\ IsKind(sr, 2, {".", ",", ";"}) /\ IsNum(sr, 3)
         THEN Clamp01(RDiv(DecVal(sr[1], sr[3]), RHundred))
    ELSE None

\* the person branch when local_share is None: the second parse and the
\* bare number fallback
PersonFallback(o) ==
    LET sr == Strip(o.share_raw)
        parsed == parse_pct_from_text(sr)
    IN  IF parsed # None THEN parsed
        ELSE IF sr # <<>> THEN BareNumber(sr)
        ELSE None

\* local_share of the person branch
PersonLocalShare(sh) == IF sh.local # None THEN sh.local ELSE sh.person_fallback

\* _emit_owners_and_recurse: local_share and eff_share of an owner before
\* its kind is looked at, and local_share as the person branch completes it
Shares(o) ==
    [local |-> IF o.share_pct # None THEN RDiv(o.share_pct, RHundred)
               ELSE IF o.share_raw # <<>> THEN parse_pct_from_text(o.share_raw)
               ELSE None,
     eff |-> parse_effective_from_text(o.share_raw),
     person_fallback |-> PersonFallback(o)]

\* the multiplier handed to the next level, without the parent's multiplier
NextMultLocalOnly(sh, parent_multiplier) ==
    IF sh.local # None THEN sh.local
    ELSE IF sh.eff # None THEN sh.eff
    ELSE parent_multiplier

\* next_mult, the multiplier handed to the next level
NextMult(sh, parent_multiplier) ==
    IF sh.local # None THEN RMul(parent_multiplier, sh.local)
    ELSE IF sh.eff # None THEN sh.eff
    ELSE parent_multiplier

RawOrQuestion(o) == IF o.share_raw # <<>> THEN o.share_raw ELSE <<Word("?")>>

PctTxt(o, sh) ==
    IF sh.local # None THEN Fmt2(RMul(sh.local, RHundred)) \o <<Sym("%")>>
    ELSE RawOrQuestion(o)

EffPct(sh, parent_multiplier) ==
    IF sh.local # None THEN RMul(RMul(parent_multiplier, sh.local), RHundred)
    ELSE IF sh.eff # None THEN RMul(sh.eff, RHundred)
    ELSE None

IsCompanyOwner(o) == o.kind = "COMPANY" /\ o.ico # ""
IsForeignOwner(o) == o.kind = "FOREIGN" /\ o.ico # ""

\* the company owner's line written at the depth of the label line
CompanyOwnerLineShallow(o, sh, depth, parent_multiplier) ==
    NodeLine(depth + 1, o.label,
             o.name \o <<Sp, Dash, Sp>> \o PctTxt(o, sh)
             \o <<Sp, LP, Word("ICO"), Sp, Ico(o.ico), RP>>,
             EffPct(sh, parent_multiplier))

\* f"{o.name} — {pct_txt} (IČO {o.ico})"
CompanyOwnerLine(o, sh, depth, parent_multiplier) ==
    NodeLine(depth + 2, o.label,
             o.name \o <<Sp, Dash, Sp>> \o PctTxt(o, sh)
             \o <<Sp, LP, Word("ICO"), Sp, Ico(o.ico), RP>>,
             EffPct(sh, parent_multiplier))

\* f"{o.name} — {pct_txt} (ID {fid})"
ForeignOwnerLine(o, sh, depth, parent_multiplier) ==
    NodeLine(depth + 2, o.label,
             o.name \o <<Sp, Dash, Sp>> \o PctTxt(o, sh)
             \o <<Sp, LP, Word("ID"), Sp, Word(o.ico), RP>>,
             EffPct(sh, parent_multiplier))

\* the line of a natural person, given local_share of the person branch
PersonOwnerLine(o, local_share, eff_share, depth, parent_multiplier) ==
    IF local_share # None
    THEN LET eff_pct == RMul(RMul(parent_multiplier, local_share), RHundred)
         IN  NodeLine(depth + 2, o.label,
                      o.name \o <<Sp, Dash, Sp>> \o Fmt2(RMul(local_share, RHundred))
                      \o <<Sym("%"), Sp, LP, Sym("EF"), Sp>> \o Fmt2(eff_pct) \o <<Sym("%"), RP>>,
                      eff_pct)
    ELSE IF eff_share # None
    THEN NodeLine(depth + 2, o.label,
                  o.name \o <<Sp, Dash, Sp>>
                  \o (IF o.share_pct # None THEN Fmt2(o.share_pct) \o <<Sym("%")>>
                      ELSE RawOrQuestion(o))
                  \o <<Sp, LP, Sym("EF"), Sp>> \o Fmt2(RMul(eff_share, RHundred)) \o <<Sym("%"), RP>>,
                  RMul(eff_share, RHundred))
    ELSE NodeLine(depth + 2, o.label,
                  o.name \o (IF o.share_raw # <<>> THEN <<Sp, Dash, Sp>> \o o.share_raw ELSE <<>>),
                  None)

(***************************************************************************)
(* resolve_tree_online: the traversal                                      *)
(***************************************************************************)
\* one active call of walk_cz_company or walk_foreign.  chain is the list
\* of the local shares of the owner records on the path from the root
\* (None for an owner without a known local share).
Frame(fn, id, depth, mult, name, chain) ==
    [fn |-> fn, id |-> id, depth |-> depth, mult |-> mult, name |-> name,
     chain |-> chain, pc |-> "start", items |-> <<>>, owners |-> <<>>, work |-> <<>>,
     sh |-> <<>>]

Top == stack[Len(stack)]
Running == rstatus = "running" /\ stack # <<>>
ReplaceTop(f) == [stack EXCEPT ![Len(stack)] = f]
Pop == SubSeq(stack, 1, Len(stack) - 1)

RECURSIVE LabelsOf(_, _)
\* the labels of the owners in the order of their first occurrence
LabelsOf(owners, seen) ==
    IF owners = <<>> THEN <<>>
    ELSE IF Head(owners).label \in seen THEN LabelsOf(Tail(owners), seen)
    ELSE <<Head(owners).label>> \o LabelsOf(Tail(owners), seen \cup {Head(owners).label})

RECURSIVE WithLabel(_, _)
WithLabel(owners, label) ==
    IF owners = <<>> THEN <<>>
    ELSE (IF Head(owners).label = label
          THEN <<[w |-> "owner", label |-> label, o |-> Head(owners)]>> ELSE <<>>)
         \o WithLabel(Tail(owners), label)

RECURSIVE GroupWork(_, _)
GroupWork(labels, owners) ==
    IF labels = <<>> THEN <<>>
    ELSE <<[w |-> "label", label |-> Head(labels), o |-> <<>>]>>
         \o WithLabel(owners, Head(labels))
         \o GroupWork(Tail(labels), owners)

\* the groups in the reverse of the order in which their labels first appear
by_label_last_first(owners) ==
    LET ls == LabelsOf(owners, {})
    IN  GroupWork([i \in 1..Len(ls) |-> ls[Len(ls) + 1 - i]], owners)

\* _emit_owners_and_recurse: by_label, as the list of steps it leads to
by_label(owners) == GroupWork(LabelsOf(owners, {}), owners)

MaxDepths == {2, MaxDepthCeiling}

ResolveInit ==
    /\ ParserIdle
    /\ AggregatorIdle
    /\ ClassifierIdle
    /\ max_depth \in MaxDepths
    /\ manual_overrides \in ManualChoices
    /\ cache = [i \in Companies \cup {JunkIco} |-> NotCached]
    /\ calls = <<>>
    /\ lines = <<>>
    /\ chains = <<>>
    /\ warnings = <<>>
    /\ stack = <<Frame("walk_cz_company", root_ico, 0, ROne, <<>>, <<>>)>>
    /\ rstatus = "running"

\* the outermost call has returned: resolve_tree_online returns
AfterPop(st) == IF st = <<>> THEN "returned" ELSE "running"

\* the depth check with the limit three levels too far
ExceedsMaxDepthLate(depth) == depth > max_depth + 3

\* the depth check against twice the limit
ExceedsTwiceMaxDepth(depth) == depth > 2 * max_depth

\* if depth > max_depth
ExceedsMaxDepth(depth) == depth > max_depth

\* lines.append(l); c is the chain of local shares of an owner line
AddLine(l, c) == lines' = Append(lines, l) /\ chains' = Append(chains, c)

\* walk_cz_company: depth > max_depth
CzDepthLimit ==
    /\ Running /\ Top.pc = "start" /\ Top.fn = "walk_cz_company"
    /\ ExceedsMaxDepth(Top.depth)
    /\ AddLine(NodeLine(Top.depth, "", DepthLimitText, None), <<>>)
    /\ stack' = Pop
    /\ rstatus' = AfterPop(Pop)
    /\ UNCHANGED <<max_depth, manual_overrides, cache, calls, warnings, pvars, avars, cvars>>

\* walk_cz_company: client.get_vr raises; nothing catches it
CzLookupRaises ==
    /\ Running /\ Top.pc = "start" /\ Top.fn = "walk_cz_company"
    /\ ~ExceedsMaxDepth(Top.depth)
    /\ RaisedAnswer \in GetVrAnswers(NormIco(Top.id))
    /\ calls' = Append(calls, NormIco(Top.id))
    /\ stack' = <<>>
    /\ rstatus' = "raised"
    /\ UNCHANGED <<max_depth, manual_overrides, cache, lines, chains, warnings, pvars, avars, cvars>>

\* the payload carries _error and the whole resolution ends with the error line
CzLookupErrorEndsAll ==
    /\ Running /\ Top.pc = "start" /\ Top.fn = "walk_cz_company"
    /\ ~ExceedsMaxDepth(Top.depth)
    /\ LET ico_norm == NormIco(Top.id)
       IN  /\ ErrorPayload \in GetVrAnswers(ico_norm)
           /\ calls' = Append(calls, ico_norm)
           /\ cache' = CachePut(ico_norm, ErrorPayload)
           /\ AddLine(NodeLine(Top.depth, "", ErrorText(ico_norm), None), <<>>)
           /\ warnings' = Append(warnings, [kind |-> "error", id |-> ico_norm])
    /\ stack' = <<>>
    /\ rstatus' = "returned"
    /\ UNCHANGED <<max_depth, manual_overrides, pvars, avars, cvars>>

\* walk_cz_company: the payload carries _error
CzLookupError ==
    /\ Running /\ Top.pc = "start" /\ Top.fn = "walk_cz_company"
    /\ ~ExceedsMaxDepth(Top.depth)
    /\ LET ico_norm == NormIco(Top.id)
       IN  /\ ErrorPayload \in GetVrAnswers(ico_norm)
           /\ calls' = Append(calls, ico_norm)
           /\ cache' = CachePut(ico_norm, ErrorPayload)
           /\ AddLine(NodeLine(Top.depth, "", ErrorText(ico_norm), None), <<>>)
           /\ warnings' = Append(warnings, [kind |-> "error", id |-> ico_norm])
    /\ stack' = Pop
    /\ rstatus' = AfterPop(Pop)
    /\ UNCHANGED <<max_depth, manual_overrides, pvars, avars, cvars>>

\* walk_cz_company: the payload is a record; the header line
CzLookupOk ==
    /\ Running /\ Top.pc = "start" /\ Top.fn = "walk_cz_company"
    /\ ~ExceedsMaxDepth(Top.depth)
    /\ LET ico_norm == NormIco(Top.id)
       IN  \E a \in GetVrAnswers(ico_norm) :
             /\ a.outcome = "ok"
             /\ calls' = Append(calls, ico_norm)
             /\ cache' = CachePut(ico_norm, a)
             /\ LET x == extract_current_owners(ico_norm, a)
                IN  /\ AddLine(NodeLine(Top.depth, "", CzHeaderText(CompanyName(x.c_name), x.c_ico),
                                         IF Top.depth = 0 THEN RMul(Top.mult, RHundred) ELSE None),
                                <<>>)
                    /\ stack' = ReplaceTop([Top EXCEPT !.pc = "legacy", !.id = x.c_ico,
                                                       !.name = CompanyName(x.c_name),
                                                       !.owners = x.owners,
                                                       !.items = ManualFor(manual_overrides, x.c_ico)])
    /\ UNCHANGED <<max_depth, manual_overrides, warnings, rstatus, pvars, avars, cvars>>

\* walk_cz_company, first loop: one raw manual item; a company item
\* without a name makes the code ask the gateway for the name, inside try
CzLegacyItem ==
    /\ Running /\ Top.pc = "legacy" /\ Top.items # <<>>
    /\ LET ico_clean == LegacyLookupIco(Head(Top.items))
       IN  IF ico_clean = "" THEN UNCHANGED <<cache, calls>>
           ELSE \E a \in GetVrAnswers(ico_clean) :
                  /\ calls' = Append(calls, ico_clean)
                  /\ cache' = CachePut(ico_clean, a)
    /\ stack' = ReplaceTop([Top EXCEPT !.items = Tail(Top.items)])
    /\ UNCHANGED <<max_depth, manual_overrides, lines, chains, warnings, rstatus, pvars, avars, cvars>>

\* the merge with manual owners taking the place of the registry's owners
CzMergeReplacing ==
    /\ Running /\ Top.pc = "legacy" /\ Top.items = <<>>
    /\ LET mo == _coerce_manual_overrides(manual_overrides)
           manual == manual_owners_from_mo(ManualFor(mo, Top.id))
           owners == IF manual # <<>> THEN manual ELSE Top.owners
       IN  /\ warnings' = IF owners = <<>>
                          THEN Append(warnings, [kind |-> "unresolved", id |-> Top.id])
                          ELSE warnings
           /\ stack' = ReplaceTop([Top EXCEPT !.pc = "emit", !.owners = owners,
                                              !.work = by_label(owners)])
    /\ UNCHANGED <<max_depth, manual_overrides, cache, calls, lines, chains, rstatus, pvars, avars, cvars>>

\* walk_cz_company: owners = list(owners) + manual_owners_from_mo, the
\* 'unresolved' warning, and the grouping by label
CzMerge ==
    /\ Running /\ Top.pc = "legacy" /\ Top.items = <<>>
    /\ LET mo == _coerce_manual_overrides(manual_overrides)
           owners == Top.owners \o manual_owners_from_mo(ManualFor(mo, Top.id))
       IN  /\ warnings' = IF owners = <<>>
                          THEN Append(warnings, [kind |-> "unresolved", id |-> Top.id])
                          ELSE warnings
           /\ stack' = ReplaceTop([Top EXCEPT !.pc = "emit", !.owners = owners,
                                              !.work = by_label(owners)])
    /\ UNCHANGED <<max_depth, manual_overrides, cache, calls, lines, chains, rstatus, pvars, avars, cvars>>

\* id.strip() of a foreign identifier
StripId(x) == IF x = " " THEN "" ELSE x

\* walk_foreign: depth > max_depth
ForeignDepthLimit ==
    /\ Running /\ Top.pc = "start" /\ Top.fn = "walk_foreign"
    /\ ExceedsMaxDepth(Top.depth)
    /\ AddLine(NodeLine(Top.depth, "", DepthLimitText, None), <<>>)
    /\ stack' = Pop
    /\ rstatus' = AfterPop(Pop)
    /\ UNCHANGED <<max_depth, manual_overrides, cache, calls, warnings, pvars, avars, cvars>>

\* walk_foreign: the identifier check and the header line; no gateway call
ForeignEnter ==
    /\ Running /\ Top.pc = "start" /\ Top.fn = "walk_foreign"
    /\ ~ExceedsMaxDepth(Top.depth)
    /\ LET fid == StripId(Top.id)
           nm == IF Top.name # <<>> THEN Top.name ELSE DefaultForeignName(fid)
           mo == _coerce_manual_overrides(manual_overrides)
       IN  IF fid = ""
           THEN /\ AddLine(NodeLine(Top.depth, "", InvalidForeignText, None), <<>>)
                /\ stack' = Pop
                /\ rstatus' = AfterPop(Pop)
           ELSE /\ AddLine(NodeLine(Top.depth, "", ForeignHeaderText(nm, fid), None), <<>>)
                /\ stack' = ReplaceTop([Top EXCEPT !.pc = "items", !.id = fid, !.name = nm,
                                                   !.items = ManualFor(mo, fid)])
                /\ UNCHANGED rstatus
    /\ UNCHANGED <<max_depth, manual_overrides, cache, calls, warnings, pvars, avars, cvars>>

\* walk_foreign: one canonical manual item; a company item makes the code
\* ask the gateway for the company's name, inside try
ForeignItem ==
    /\ Running /\ Top.pc = "items" /\ Top.items # <<>>
    /\ LET it == Head(Top.items)
       IN  IF it.type = "company" /\ ~RLe(it.share, RZero)
           THEN \E a \in GetVrAnswers(NormIco(it.ico)) :
                  /\ calls' = Append(calls, NormIco(it.ico))
                  /\ cache' = CachePut(NormIco(it.ico), a)
                  /\ stack' = ReplaceTop([Top EXCEPT
                         !.items = Tail(Top.items),
                         !.owners = Top.owners \o ManualOwner(it,
                              IF a.outcome = "ok"
                              THEN CompanyName(extract_current_owners(NormIco(it.ico), a).c_name)
                              ELSE ItemCompanyName(it))])
           ELSE /\ stack' = ReplaceTop([Top EXCEPT
                         !.items = Tail(Top.items),
                         !.owners = Top.owners \o ManualOwner(it, <<>>)])
                /\ UNCHANGED <<cache, calls>>
    /\ UNCHANGED <<max_depth, manual_overrides, lines, chains, warnings, rstatus, pvars, avars, cvars>>

\* walk_foreign going on to the owners without any warning
ForeignMergeSilent ==
    /\ Running /\ Top.pc = "items" /\ Top.items = <<>>
    /\ stack' = ReplaceTop([Top EXCEPT !.pc = "emit", !.work = by_label(Top.owners)])
    /\ UNCHANGED <<max_depth, manual_overrides, cache, calls, lines, chains, warnings, rstatus, pvars, avars, cvars>>

\* walk_foreign: the 'unresolved' warning and the grouping by label
ForeignMerge ==
    /\ Running /\ Top.pc = "items" /\ Top.items = <<>>
    /\ warnings' = IF Top.owners = <<>>
                   THEN Append(warnings, [kind |-> "unresolved", id |-> Top.id])
                   ELSE warnings
    /\ stack' = ReplaceTop([Top EXCEPT !.pc = "emit", !.work = by_label(Top.owners)])
    /\ UNCHANGED <<max_depth, manual_overrides, cache, calls, lines, chains, rstatus, pvars, avars, cvars>>

Emitting == Running /\ Top.pc = "emit" /\ Top.work # <<>>

\* _emit_owners_and_recurse: the next owner of the inner loop, its
\* local_share and eff_share
OwnerShares ==
    /\ Emitting /\ Head(Top.work).w = "owner" /\ Top.sh = <<>>
    /\ stack' = ReplaceTop([Top EXCEPT !.sh = Shares(Head(Top.work).o)])
    /\ UNCHANGED <<max_depth, manual_overrides, cache, calls, lines, chains, warnings, rstatus, pvars, avars, cvars>>

\* _emit_owners_and_recurse: the line of a label
EmitLabel ==
    /\ Emitting /\ Head(Top.work).w = "label"
    /\ AddLine(NodeLine(Top.depth + 1, Head(Top.work).label, LabelText(Head(Top.work).label), None),
               <<>>)
    /\ stack' = ReplaceTop([Top EXCEPT !.work = Tail(Top.work), !.sh = <<>>])
    /\ UNCHANGED <<max_depth, manual_overrides, cache, calls, warnings, rstatus, pvars, avars, cvars>>

\* _emit_owners_and_recurse: a company owner, its line and the call of
\* walk_cz_company(o.ico, depth + 3, next_mult)
EmitOwnerCompany ==
    /\ Emitting /\ Head(Top.work).w = "owner" /\ Top.sh # <<>>
    /\ LET o == Head(Top.work).o
           sh == Top.sh
       IN  /\ IsCompanyOwner(o)
           /\ AddLine(CompanyOwnerLine(o, sh, Top.depth, Top.mult), Append(Top.chain, sh.local))
           /\ stack' = Append(ReplaceTop([Top EXCEPT !.work = Tail(Top.work), !.sh = <<>>]),
                              Frame("walk_cz_company", o.ico, Top.depth + 3,
                                    NextMult(sh, Top.mult), <<>>, Append(Top.chain, sh.local)))
    /\ UNCHANGED <<max_depth, manual_overrides, cache, calls, warnings, rstatus, pvars, avars, cvars>>

\* _emit_owners_and_recurse: a foreign owner, its line and the call of
\* walk_foreign(fid, depth + 3, next_mult, display_name=o.name)
EmitOwnerForeign ==
    /\ Emitting /\ Head(Top.work).w = "owner" /\ Top.sh # <<>>
    /\ LET o == Head(Top.work).o
           sh == Top.sh
       IN  /\ ~IsCompanyOwner(o) /\ IsForeignOwner(o)
           /\ AddLine(ForeignOwnerLine(o, sh, Top.depth, Top.mult), Append(Top.chain, sh.local))
           /\ stack' = Append(ReplaceTop([Top EXCEPT !.work = Tail(Top.work), !.sh = <<>>]),
                              Frame("walk_foreign", StripId(o.ico), Top.depth + 3,
                                    NextMult(sh, Top.mult), o.name, Append(Top.chain, sh.local)))
    /\ UNCHANGED <<max_depth, manual_overrides, cache, calls, warnings, rstatus, pvars, avars, cvars>>

\* a natural person treated as an entity: walk_cz_company is called for it
EmitOwnerPersonRecursing ==
    /\ Emitting /\ Head(Top.work).w = "owner" /\ Top.sh # <<>>
    /\ LET o == Head(Top.work).o
           sh == Top.sh
           local_share == PersonLocalShare(sh)
       IN  /\ ~IsCompanyOwner(o) /\ ~IsForeignOwner(o)
           /\ AddLine(PersonOwnerLine(o, local_share, sh.eff, Top.depth, Top.mult),
                      Append(Top.chain, local_share))
           /\ stack' = Append(ReplaceTop([Top EXCEPT !.work = Tail(Top.work), !.sh = <<>>]),
                              Frame("walk_cz_company", o.ico, Top.depth + 3,
                                    NextMult(sh, Top.mult), <<>>, Append(Top.chain, local_share)))
    /\ UNCHANGED <<max_depth, manual_overrides, cache, calls, warnings, rstatus, pvars, avars, cvars>>

\* _emit_owners_and_recurse: a natural person; the branch ends here
EmitOwnerPerson ==
    /\ Emitting /\ Head(Top.work).w = "owner" /\ Top.sh # <<>>
    /\ LET o == Head(Top.work).o
           sh == Top.sh
           local_share == PersonLocalShare(sh)
       IN  /\ ~IsCompanyOwner(o) /\ ~IsForeignOwner(o)
           /\ AddLine(PersonOwnerLine(o, local_share, sh.eff, Top.depth, Top.mult),
                      Append(Top.chain, local_share))
    /\ stack' = ReplaceTop([Top EXCEPT !.work = Tail(Top.work), !.sh = <<>>])
    /\ UNCHANGED <<max_depth, manual_overrides, cache, calls, warnings, rstatus, pvars, avars, cvars>>

\* walk_cz_company / walk_foreign return after the last owner
Return ==
    /\ Running /\ Top.pc = "emit" /\ Top.work = <<>>
    /\ stack' = Pop
    /\ rstatus' = AfterPop(Pop)
    /\ UNCHANGED <<max_depth, manual_overrides, cache, calls, lines, chains, warnings, pvars, avars, cvars>>

ResolveNext ==
    \/ CzDepthLimit \/ CzLookupRaises \/ CzLookupError \/ CzLookupOk
    \/ CzLegacyItem \/ CzMerge
    \/ ForeignDepthLimit \/ ForeignEnter \/ ForeignItem \/ ForeignMerge
    \/ EmitLabel \/ OwnerShares \/ EmitOwnerCompany \/ EmitOwnerForeign \/ EmitOwnerPerson
    \/ Return

SpecResolve == ResolveInit /\ [][ResolveNext]_vars

\* resolve_tree_online is sequential code: as long as a statement is left to
\* run, one runs.  This is WF_vars(ResolveNext) with ENABLED <<ResolveNext>>_vars
\* written out as Running: every running state has a next step and every
\* step changes the state.
SpecResolveFair ==
    /\ ResolveInit /\ [][ResolveNext]_vars
    /\ ([]<>(~Running) \/ []<><<ResolveNext>>_vars)

(***************************************************************************)
(* Properties of resolve_tree_online                                       *)
(***************************************************************************)
RECURSIVE Prod(_)
\* the product of a chain of local shares
Prod(chain) == IF chain = <<>> THEN ROne ELSE RMul(Head(chain), Prod(Tail(chain)))

Known(chain) == \A i \in 1..Len(chain) : chain[i] # None

\* C4: every owner line whose local share and whose ancestors' local shares
\* are known carries effective_pct = (product of the local shares on the
\* path from the root, its own included) * 100, and every call of
\* walk_cz_company / walk_foreign receives as multiplier the product of the
\* local shares above it, i.e. parent_multiplier * local_share.
C4_EffectiveIsProduct ==
    /\ \A i \in 1..Len(lines) :
         (chains[i] # <<>> /\ Known(chains[i]))
         => lines[i].effective_pct = RMul(Prod(chains[i]), RHundred)
    /\ \A k \in 1..Len(stack) :
         Known(stack[k].chain) => stack[k].mult = Prod(stack[k].chain)

\* a person under a company owner: 60 % of 50 % is 30 %
C4_Witness ==
    \E i \in 1..Len(lines) :
        /\ chains[i] = <<(<<3, 5>>), (<<1, 2>>)>>
        /\ lines[i].effective_pct = <<30, 1>>
        /\ lines[i].depth = 5

IsDepthLimitLine(l) == l.text = DepthLimitText
IsErrorLine(l) == l.label = "" /\ Len(l.text) > 2 /\ l.text[3] = Word("Nelze nacist ARES VR pro")
\* the header of a company or of a foreign entity
IsHeaderLine(l) == l.label = "" /\ Head(l.text) # Warn

\* C6: a branch entered at a depth greater than max_depth writes exactly
\* one depth-limit line at that depth, calls the gateway not at all, and
\* returns at once (no header, label or owner line below it, no recursion);
\* no header line ever has a depth greater than max_depth.
C6_DepthLimit ==
    /\ [](\A i \in 1..Len(lines) : IsHeaderLine(lines[i]) => lines[i].depth <= max_depth)
    /\ [][(Running /\ Top.pc = "start" /\ Top.depth > max_depth)
          => /\ lines' = Append(lines, NodeLine(Top.depth, "", DepthLimitText, None))
             /\ calls' = calls
             /\ warnings' = warnings
             /\ stack' = Pop]_vars

\* a finished resolution whose cycle A -> B -> A -> B was cut at depth 9
C6_Witness ==
    /\ rstatus = "returned"
    /\ \E i \in 1..Len(lines) :
         /\ IsDepthLimitLine(lines[i]) /\ lines[i].depth = 9 /\ max_depth = 6
         /\ i > 1 /\ lines[i - 1].depth = 8

\* the position of the header line of the active call stack[k]
HeaderIndex(k) ==
    CHOOSE i \in 1..Len(lines) :
        /\ lines[i].depth = stack[k].depth /\ IsHeaderLine(lines[i])
        /\ \A j \in (i + 1)..Len(lines) : lines[j].depth > stack[k].depth

\* the owner lines written so far under the header of stack[k]
OwnerLinesOf(k) ==
    {i \in (HeaderIndex(k) + 1)..Len(lines) : lines[i].depth = stack[k].depth + 2}

PendingOwners(f) == {j \in 1..Len(f.work) : f.work[j].w = "owner"}

\* a manual record the resolver is to use: positive share, identifier or name present
ValidManual(item) ==
    /\ RLt(RZero, item.share)
    /\ \/ item.shape = "tuple" /\ item.ico # ""
       \/ item.shape = "dict" /\ item.type = "company" /\ item.ico # ""
       \/ item.shape = "dict" /\ item.type = "foreign" /\ item.id # ""
       \/ item.shape = "dict" /\ item.type = "person" /\ item.name # ""

ValidManualCount(id) ==
    Cardinality({j \in 1..Len(ManualFor(manual_overrides, id)) :
                    ValidManual(ManualFor(manual_overrides, id)[j])})

\* C7: under the header of a company whose registry record has n owners
\* and that has m valid manual records, the owner lines written and still
\* to be written number n + m; the registry's owners stay, in their order,
\* in front of the manual ones.
C7_ManualAdditive ==
    \A k \in 1..Len(stack) :
        (stack[k].fn = "walk_cz_company" /\ stack[k].pc = "emit")
        => LET f == stack[k]
               reg == cache[f.id].owners
           IN  /\ Cardinality(OwnerLinesOf(k)) + Cardinality(PendingOwners(f))
                  = Len(reg) + ValidManualCount(f.id)
               /\ Len(f.owners) = Len(reg) + ValidManualCount(f.id)
               /\ SubSeq(f.owners, 1, Len(reg)) = reg
               /\ \A j \in (Len(reg) + 1)..Len(f.owners) : f.owners[j].label = ManualLabel

\* one discovered owner and one manual record: two owner lines under the root
C7_Witness ==
    /\ stack # <<>> /\ stack[1].pc = "emit" /\ stack[1].work = <<>>
    /\ Len(cache[root_ico].owners) = 1
    /\ ValidManualCount(root_ico) = 1
    /\ Cardinality(OwnerLinesOf(1)) = 2
    /\ Len(stack) = 1

\* C10: when the gateway reports an error for a company, exactly one error
\* line at that company's header depth and one warning of kind 'error'
\* are recorded and only that call returns: the callers and the owners they
\* still have to write are untouched; nothing is written below the error line.
C10_ErrorEndsBranchOnly ==
    /\ [](\A i \in 1..Len(lines) :
            (IsErrorLine(lines[i]) /\ i < Len(lines)) => lines[i + 1].depth < lines[i].depth)
    /\ [][(Running /\ Top.pc = "start" /\ Top.fn = "walk_cz_company"
           /\ calls' # calls /\ rstatus' # "raised"
           /\ cache'[NormIco(Top.id)] = ErrorPayload)
          => /\ lines' = Append(lines, NodeLine(Top.depth, "", ErrorText(NormIco(Top.id)), None))
             /\ warnings' = Append(warnings, [kind |-> "error", id |-> NormIco(Top.id)])
             /\ stack' = Pop]_vars

\* the lookup of the non-root company B failed and the sibling after it
\* was still written
C10_Witness ==
    /\ rstatus = "returned"
    /\ \E i \in 1..Len(lines) :
         /\ IsErrorLine(lines[i]) /\ lines[i].depth = 3
         /\ i < Len(lines) /\ lines[i + 1].depth = 2
         /\ Cardinality({w \in 1..Len(warnings) : warnings[w].kind = "error"}) = 1

\* C11: resolve_tree_online raises only before it has produced any output:
\* whenever the resolution has ended by an exception, no line has been
\* written (a lookup of a non-root company never aborts the resolution).
C11_RaisesOnlyBeforeOutput == rstatus = "raised" => lines = <<>>

\* C12: while walk_foreign is the running call, from the header of the
\* foreign entity to the writing of its owner lines, no call of
\* client.get_vr is made.
C12_ForeignNeverCallsGateway ==
    [][(Running /\ Top.fn = "walk_foreign") => calls' = calls]_vars

\* the owner the inner loop of _emit_owners_and_recurse is about to write
\* has no numeric share and an 'efektivně NN %' annotation in its text
AnnotatedOwnerNext ==
    /\ Emitting /\ Head(Top.work).w = "owner" /\ Top.sh # <<>>
    /\ Head(Top.work).o.share_pct = None
    /\ Top.sh.eff # None

\* C13: the line of an owner without numeric share whose text says
\* 'efektivně NN %' carries effective_pct = NN, and the multiplier handed
\* to the next level is NN/100; the parent's multiplier enters neither.
C13_EffectiveAnnotationWins ==
    [][(AnnotatedOwnerNext /\ lines' # lines)
       => /\ lines'[Len(lines')].effective_pct = RMul(Top.sh.eff, RHundred)
          /\ Len(stack') > Len(stack) => stack'[Len(stack')].mult = Top.sh.eff]_vars

\* a manual record as the claim wants it: a positive share and an
\* identifier that is one (a company's IČO of seven or eight digits, a
\* non-empty foreign identifier, a non-empty name)
WellFormed(item) ==
    /\ RLt(RZero, item.share)
    /\ \/ item.shape = "tuple" /\ item.ico \in Companies
       \/ item.shape = "dict" /\ item.type = "company" /\ item.ico \in Companies
       \/ item.shape = "dict" /\ item.type = "foreign" /\ item.id # ""
       \/ item.shape = "dict" /\ item.type = "person" /\ item.name # ""

WellFormedCount(id) ==
    Cardinality({j \in 1..Len(ManualFor(manual_overrides, id)) :
                    WellFormed(ManualFor(manual_overrides, id)[j])})

\* C14: malformed manual records are dropped: the manual owners of an
\* entity, domestic or foreign, are as many as its well-formed records,
\* whichever shape the records have.
C14_MalformedDiscarded ==
    \A k \in 1..Len(stack) :
        stack[k].pc = "emit"
        => Cardinality({j \in 1..Len(stack[k].owners) : stack[k].owners[j].label = ManualLabel})
           = WellFormedCount(stack[k].id)

\* C15: the walk ends, whatever the registry and the manual data hold
\* (a cycle A -> B -> A, a cycle through a foreign entity): every call is
\* three depth units below its caller, no call is made from a depth above
\* max_depth, and the resolution returns or ends with the exception of a
\* registry lookup made within the limit (no exception comes from the cycle).
C15_Terminates ==
    /\ <>(rstatus # "running")
    /\ [](\A k \in 1..Len(stack) :
            /\ stack[k].depth = 3 * (k - 1)
            /\ k > 1 => stack[k - 1].depth <= max_depth)
    /\ [][(rstatus = "running" /\ rstatus' = "raised")
           => calls' # calls /\ ~ExceedsMaxDepth(Top.depth)]_vars

IsHeaderOf(l, ico) == l.text = CzHeaderText(CompanyName(ico), ico)

\* the cycle A -> B -> A -> B: A is expanded at depth 0 and again at depth
\* 6, the branch ends with the depth-limit line at depth 9, and the
\* resolution has returned
C15_Witness ==
    /\ rstatus = "returned" /\ max_depth = 6
    /\ \E i, j, k \in 1..Len(lines) :
         /\ i < j /\ j < k
         /\ IsHeaderOf(lines[i], "A") /\ lines[i].depth = 0
         /\ IsHeaderOf(lines[j], "A") /\ lines[j].depth = 6
         /\ IsDepthLimitLine(lines[k]) /\ lines[k].depth = 9

\* the kinds of line the resolver writes
IsNodeLine(l) == l.label = ""
IsLabelLine(l) == l.label # "" /\ l.text = LabelText(l.label)
IsOwnerLineAt(i) == lines[i].label # "" /\ chains[i] # <<>>
\* an owner line that ends with "(IČO ...)" or "(ID ...)"
IsEntityOwnerLine(l) ==
    /\ l.label # "" /\ Len(l.text) > 4
    /\ l.text[Len(l.text) - 3] \in {Word("ICO"), Word("ID")}
    /\ l.text[Len(l.text)] = RP

\* the nearest line before line i that is shallower than line i, 0 if none
Enclosing(i) ==
    LET above == {j \in 1..(i - 1) : lines[j].depth < lines[i].depth}
    IN  IF above = {} THEN 0 ELSE CHOOSE j \in above : \A k \in above : k <= j

\* C16: the root header is at depth 0; header, error and depth-limit lines
\* are at multiples of 3; a label line is one below its header and an owner
\* line two below it (one below its label line); the header (or error or
\* depth-limit line) of a company or foreign owner directly follows the
\* owner's line, one deeper.
C16_DepthStride ==
    /\ lines # <<>> => IsNodeLine(lines[1]) /\ lines[1].depth = 0
    /\ \A i \in 1..Len(lines) :
         LET l == lines[i]
             e == Enclosing(i)
         IN  \/ /\ IsNodeLine(l) /\ chains[i] = <<>>
                /\ l.depth % 3 = 0
                /\ i > 1 => /\ IsEntityOwnerLine(lines[i - 1]) /\ IsOwnerLineAt(i - 1)
                            /\ lines[i - 1].depth = l.depth - 1
             \/ /\ IsLabelLine(l) /\ chains[i] = <<>>
                /\ e > 0 /\ IsHeaderLine(lines[e]) /\ lines[e].depth = l.depth - 1
             \/ /\ IsOwnerLineAt(i) /\ ~IsLabelLine(l)
                /\ e > 0 /\ IsLabelLine(lines[e]) /\ lines[e].label = l.label
                /\ lines[e].depth = l.depth - 1
                /\ Enclosing(e) > 0 /\ IsHeaderLine(lines[Enclosing(e)])
                /\ lines[Enclosing(e)].depth = l.depth - 2

\* header 0, label 1, company owner 2, its header 3, label 4, owner 5, and a
\* depth-limit line at depth 9 further down
C16_Witness ==
    /\ rstatus = "returned"
    /\ \E i \in 1..Len(lines) :
         /\ i + 3 <= Len(lines)
         /\ IsEntityOwnerLine(lines[i]) /\ lines[i].depth = 2
         /\ IsHeaderLine(lines[i + 1]) /\ lines[i + 1].depth = 3
         /\ IsLabelLine(lines[i + 2]) /\ lines[i + 2].depth = 4
         /\ IsOwnerLineAt(i + 3) /\ lines[i + 3].depth = 5
    /\ \E k \in 1..Len(lines) : IsDepthLimitLine(lines[k]) /\ lines[k].depth = 9
    /\ \E k \in 1..Len(lines) : IsErrorLine(lines[k]) /\ lines[k].depth > 0

\* the position of the first owner that carries the label of owner j
FirstWithLabel(owners, j) ==
    CHOOSE a \in 1..Len(owners) :
        /\ owners[a].label = owners[j].label
        /\ \A b \in 1..(a - 1) : owners[b].label # owners[j].label

\* what a call writes at its own level: <<a, 0>> is the label line of the
\* label first met at owner a, <<a, j>> the line of owner j of that label
LevelEntries(owners) ==
    {<<FirstWithLabel(owners, j), 0>> : j \in 1..Len(owners)}
    \cup {<<FirstWithLabel(owners, j), j>> : j \in 1..Len(owners)}

EntryBefore(x, y) == x[1] < y[1] \/ (x[1] = y[1] /\ x[2] < y[2])

\* entry n in the order: labels by first appearance, owners by input order
LevelEntry(owners, n) ==
    CHOOSE e \in LevelEntries(owners) :
        Cardinality({x \in LevelEntries(owners) : EntryBefore(x, e)}) = n - 1

\* the indexes of the lines the call stack[k] has written at its own level
LevelLines(k) ==
    {i \in (HeaderIndex(k) + 1)..Len(lines) :
        lines[i].depth \in {stack[k].depth + 1, stack[k].depth + 2}}

NthOf(S, n) == CHOOSE i \in S : Cardinality({x \in S : x < i}) = n - 1

StartsWith(t, prefix) == Len(t) >= Len(prefix) /\ SubSeq(t, 1, Len(prefix)) = prefix

\* C17: under a header there is one label line per distinct label, in the
\* order in which the labels first appear among the owners, each before
\* the owners of that label, which keep their input order; the subtree of a
\* company or foreign owner directly follows the owner's line and comes
\* before the next sibling, a person's line has nothing below it.
C17_PreOrder ==
    \A k \in 1..Len(stack) :
        stack[k].pc = "emit" =>
            LET f == stack[k]
                h == HeaderIndex(k)
                S == LevelLines(k)
                n == Cardinality(S)
            IN  /\ \A j \in (h + 1)..Len(lines) : lines[j].depth > f.depth
                /\ n <= Cardinality(LevelEntries(f.owners))
                /\ f.work = <<>> /\ k = Len(stack) => n = Cardinality(LevelEntries(f.owners))
                /\ n > 0 => NthOf(S, 1) = h + 1
                /\ \A m \in 1..n :
                     LET i == NthOf(S, m)
                         e == LevelEntry(f.owners, m)
                     IN  IF e[2] = 0
                         THEN /\ IsLabelLine(lines[i])
                              /\ lines[i].label = f.owners[e[1]].label
                              /\ lines[i].depth = f.depth + 1
                         ELSE /\ IsOwnerLineAt(i)
                              /\ lines[i].label = f.owners[e[2]].label
                              /\ lines[i].depth = f.depth + 2
                              /\ StartsWith(lines[i].text, f.owners[e[2]].name)
                              /\ (m < n /\ ~IsEntityOwnerLine(lines[i])) => NthOf(S, m + 1) = i + 1
                              /\ (i < Len(lines) /\ IsEntityOwnerLine(lines[i]))
                                 => IsNodeLine(lines[i + 1]) /\ lines[i + 1].depth = f.depth + 3

\* company B has owners labelled Spolecnici, Akcionari, Spolecnici: its
\* level reads Spolecnici:, P, Q, Akcionari:, A, with the subtree of A
\* after A's line
C17_Witness ==
    /\ Running /\ Top.pc = "emit" /\ Top.work = <<>> /\ Len(stack) > 1
    /\ Len(Top.owners) = 3
    /\ Top.owners[1].label = Top.owners[3].label /\ Top.owners[2].label # Top.owners[1].label
    /\ IsCompanyOwner(Top.owners[2])
    /\ LET h == HeaderIndex(Len(stack))
       IN  /\ h + 6 <= Len(lines)
           /\ IsLabelLine(lines[h + 1]) /\ lines[h + 1].label = Top.owners[1].label
           /\ IsOwnerLineAt(h + 2) /\ IsOwnerLineAt(h + 3)
           /\ IsLabelLine(lines[h + 4]) /\ lines[h + 4].label = Top.owners[2].label
           /\ IsEntityOwnerLine(lines[h + 5])
           /\ IsHeaderLine(lines[h + 6])

\* the step of walk_cz_company / walk_foreign that has the merged owners
MergeDue == Running /\ Top.pc \in {"legacy", "items"} /\ Top.items = <<>>

Unresolved(id) == [kind |-> "unresolved", id |-> id]

\* the number of 'unresolved' warnings that name id
UnresolvedCount(id) == Cardinality({i \in 1..Len(warnings) : warnings[i] = Unresolved(id)})

\* C20: when the merged owners of an entity are empty, the call (of
\* walk_cz_company or of walk_foreign) adds exactly one 'unresolved' warning
\* that names the entity, after the header line has been written; it writes
\* no label line and no owner line, and it returns to its caller, which goes
\* on.  With owners it adds no such warning.
C20_UnresolvedContinues ==
    /\ [][MergeDue
          => /\ Len(stack') = Len(stack) /\ lines' = lines /\ rstatus' = "running"
             /\ IsHeaderLine(lines[Len(lines)]) /\ lines[Len(lines)].depth = Top.depth
             /\ IF stack'[Len(stack)].owners = <<>>
                THEN /\ warnings' = Append(warnings, Unresolved(Top.id))
                     /\ stack'[Len(stack)].pc = "emit" /\ stack'[Len(stack)].work = <<>>
                ELSE warnings' = warnings]_vars
    /\ [][(Running /\ Top.pc = "emit" /\ Top.owners = <<>>)
          => /\ lines' = lines /\ warnings' = warnings
             /\ stack' = Pop
             /\ rstatus' = IF Len(stack) > 1 THEN "running" ELSE "returned"]_vars

\* company B and the foreign entity F, both owners of A, have no owners:
\* each has its header, one warning, nothing below the header, and the next
\* owner of A follows
C20_Witness ==
    /\ rstatus = "returned"
    /\ UnresolvedCount("B") = 1 /\ UnresolvedCount("F") = 1
    /\ \E i, j \in 1..(Len(lines) - 1) :
         /\ IsHeaderOf(lines[i], "B") /\ lines[i].depth = 3
         /\ IsOwnerLineAt(i + 1) /\ lines[i + 1].depth = 2
         /\ IsHeaderLine(lines[j]) /\ lines[j].depth = 3
         /\ lines[j].text[Len(lines[j].text) - 3] = Word("ID")
         /\ IsOwnerLineAt(j + 1) /\ lines[j + 1].depth = 2

\* the raw share text is a bare number: digits, or digits, a decimal
\* separator and digits
IsBareNumber(raw) ==
    \/ Len(raw) = 1 /\ IsNum(raw, 1)
    \/ Len(raw) = 3 /\ IsNum(raw, 1) /\ IsKind(raw, 2, {".", ","}) /\ IsNum(raw, 3)

\* the owner whose line is written next has no numeric share and a bare
\* number as raw share text
BareOwnerNext ==
    /\ Emitting /\ Head(Top.work).w = "owner" /\ Top.sh # <<>>
    /\ Head(Top.work).o.share_pct = None
    /\ IsBareNumber(Head(Top.work).o.share_raw)

\* C22: a bare number as raw share text is read as a percentage for an owner
\* of every kind: the owner's line carries effective_pct = parent multiplier
\* * number, and the call made for a company or a foreign entity gets the
\* multiplier parent multiplier * number / 100.
C22_BareNumberAnyKind ==
    [][(BareOwnerNext /\ lines' # lines)
       => LET local == BareNumber(Head(Top.work).o.share_raw)
          IN  /\ lines'[Len(lines')].effective_pct = RMul(RMul(Top.mult, local), RHundred)
              /\ Len(stack') > Len(stack)
                 => stack'[Len(stack')].mult = RMul(Top.mult, local)]_vars

\* the owner whose line is written next
OwnerDue == Emitting /\ Head(Top.work).w = "owner" /\ Top.sh # <<>>

\* line i is the line of a natural person
IsPersonLineAt(i) == IsOwnerLineAt(i) /\ ~IsEntityOwnerLine(lines[i])

\* C23: the step that writes a person's line calls neither the gateway nor
\* walk_cz_company / walk_foreign, and the line after a person's line is a
\* label line or an owner line that is not deeper (a sibling, a later label,
\* the later sibling of an ancestor); the step that writes the line of a
\* company or of a foreign entity with an identifier makes exactly one call,
\* for that identifier, one below the line's depth.
C23_PersonsAreLeaves ==
    /\ [][OwnerDue
          => LET o == Head(Top.work).o
                 l == lines'[Len(lines')]
             IN  /\ Len(lines') = Len(lines) + 1 /\ calls' = calls
                 /\ IF IsCompanyOwner(o) \/ IsForeignOwner(o)
                    THEN /\ Len(stack') = Len(stack) + 1
                         /\ stack'[Len(stack')].depth = l.depth + 1
                         /\ stack'[Len(stack')].pc = "start"
                         /\ stack'[Len(stack')].id = StripId(o.ico)
                         /\ stack'[Len(stack')].fn = IF IsCompanyOwner(o) THEN "walk_cz_company"
                                                      ELSE "walk_foreign"
                    ELSE /\ Len(stack') = Len(stack)
                         /\ stack'[Len(stack)].depth = Top.depth]_vars
    /\ [](\A i \in 1..(Len(lines) - 1) :
            /\ IsPersonLineAt(i)
               => /\ lines[i + 1].label # "" /\ lines[i + 1].depth <= lines[i].depth
            /\ (IsOwnerLineAt(i) /\ IsEntityOwnerLine(lines[i]))
               => /\ IsNodeLine(lines[i + 1]) /\ lines[i + 1].depth = lines[i].depth + 1)

\* a person's line followed by a sibling's line, one followed by a label
\* line, one followed by the line of an owner two levels up; and a company's
\* line followed by the company's header
C23_Witness ==
    /\ rstatus = "returned"
    /\ \E i \in 1..(Len(lines) - 1) :
         IsPersonLineAt(i) /\ IsOwnerLineAt(i + 1) /\ lines[i + 1].depth = lines[i].depth
    /\ \E i \in 1..(Len(lines) - 1) :
         IsPersonLineAt(i) /\ IsLabelLine(lines[i + 1]) /\ lines[i + 1].depth = lines[i].depth - 1
    /\ \E i \in 1..(Len(lines) - 1) :
         IsPersonLineAt(i) /\ IsOwnerLineAt(i + 1) /\ lines[i + 1].depth = lines[i].depth - 3
    /\ \E i \in 1..(Len(lines) - 1) :
         IsEntityOwnerLine(lines[i]) /\ IsHeaderLine(lines[i + 1])

(***************************************************************************)
(* compute_effective_persons (app.py)                                      *)
(***************************************************************************)
\* "\(IČO\s+(\d{7,8})\)" at position i: the position after it, 0 when absent
IcoAt(t, i) ==
    IF i + 2 <= Len(t) /\ t[i] = LP /\ t[i + 1] = Word("ICO") /\ t[i + 2] = Sp
    THEN LET k == SkipWs(t, i + 2)
         IN  IF IsNum(t, k) /\ t[k].d \in {7, 8} /\ k + 1 <= Len(t) /\ t[k + 1] = RP
             THEN k + 2 ELSE 0
    ELSE 0

\* RE_COMPANY_HEADER.match(t): "^(.+)\s+\(IČO\s+(\d{7,8})\)\s*$"
IsCompanyHeader(t) ==
    \E i \in 3..Len(t) :
        /\ t[i - 1] = Sp
        /\ IcoAt(t, i) # 0
        /\ SkipWs(t, IcoAt(t, i)) > Len(t)

\* ICO_IN_LINE.search(t) is not None
HasIco(t) == \E i \in 1..Len(t) : IcoAt(t, i) # 0

\* t.endswith(":")
EndsWithColon(t) ==
    /\ t # <<>>
    /\ \/ t[Len(t)].k \in {"OP", "HP", "SPL"}
       \/ t[Len(t)].k = "word" /\ t[Len(t)].s \in {":", "velikost:"}

\* the positions of a dash with white space on both sides
DashPositions(t) == {i \in 2..(Len(t) - 1) : t[i] = Dash /\ t[i - 1] = Sp /\ t[i + 1] = Sp}

\* DASH_SPLIT.split(t, maxsplit=1)[0].strip()
NameOf(t) ==
    IF DashPositions(t) = {} THEN Strip(t)
    ELSE LET i == CHOOSE j \in DashPositions(t) : \A k \in DashPositions(t) : j <= k
         IN  Strip(SubSeq(t, 1, i - 1))

RECURSIVE PopFrom(_, _)
\* while header_stack and header_stack[-1][0] > limit: header_stack.pop()
PopFrom(hs, limit) ==
    IF hs # <<>> /\ hs[Len(hs)][1] > limit THEN PopFrom(SubSeq(hs, 1, Len(hs) - 1), limit)
    ELSE hs

\* header_stack[-1][1] if header_stack else 1.0
ParentMult(hs) == IF hs # <<>> THEN hs[Len(hs)][2] ELSE ROne

\* the sum with every partial sum clamped
AddContributionClamped(x, eff) == Clamp01(RAdd(x, eff))

\* entry["ownership"] += eff
AddContribution(x, eff) == RAdd(x, eff)

\* header_stack[-1][0] if header_stack else 0
ParentDepth(hs) == IF hs # <<>> THEN hs[Len(hs)][1] ELSE 0

\* one record of entry["debug_paths"]
DebugPath(parent_depth, parent_mult, local_share, eff, source, text) ==
    [parent_depth |-> parent_depth, parent_mult |-> parent_mult, local_share |-> local_share,
     eff |-> eff, source |-> source, text |-> text]

\* entry["debug_paths"].append(...)
AppendPath(dp, name, rec) ==
    [n \in DOMAIN dp \cup {name} |->
        IF n = name THEN Append(IF name \in DOMAIN dp THEN dp[name] ELSE <<>>, rec) ELSE dp[n]]

\* the contribution added to the ownership total alone
AddToPersonOwnershipOnly(ps, name, eff) ==
    LET old == IF name \in DOMAIN ps THEN ps[name] ELSE [ownership |-> RZero, voting |-> RZero]
        new == IF eff = None THEN old
               ELSE [ownership |-> AddContribution(old.ownership, eff), voting |-> old.voting]
    IN  [n \in DOMAIN ps \cup {name} |-> IF n = name THEN new ELSE ps[n]]

\* persons.setdefault(name, ...) and the two additions
AddToPerson(ps, name, eff) ==
    LET old == IF name \in DOMAIN ps THEN ps[name] ELSE [ownership |-> RZero, voting |-> RZero]
        new == IF eff = None THEN old
               ELSE [ownership |-> AddContribution(old.ownership, eff),
                     voting |-> AddContribution(old.voting, eff)]
    IN  [n \in DOMAIN ps \cup {name} |-> IF n = name THEN new ELSE ps[n]]

\* the body of the loop for one line; parsed is parse_pct_from_text(t), m is
\* EFEKTIVNE_RE.search(t); the result is the state after the line
LineStep(depth, t, effective_pct, parsed, m) ==
    IF IsCompanyHeader(t)
    THEN LET hs == PopFrom(header_stack, depth - 1)
             this_mult == IF pending_next_header_mult # None THEN pending_next_header_mult
                          ELSE ParentMult(hs)
         IN  [persons |-> persons, paths |-> debug_paths, pending |-> None,
              hs |-> Append(hs, <<depth, this_mult>>)]
    ELSE IF EndsWithColon(t)
    THEN [persons |-> persons, paths |-> debug_paths, pending |-> pending_next_header_mult,
          hs |-> header_stack]
    ELSE LET expected_parent_header_depth == IF depth - 2 > 0 THEN depth - 2 ELSE 0
             hs == PopFrom(header_stack, expected_parent_header_depth)
             parent_mult == ParentMult(hs)
             node_eff == IF effective_pct # None THEN RDiv(effective_pct, RHundred) ELSE None
         IN  IF HasIco(t)
             THEN LET local_share ==
                          IF node_eff # None /\ RLt(RZero, parent_mult) THEN RDiv(node_eff, parent_mult)
                          ELSE IF parsed # None THEN parsed
                          ELSE IF m.ok /\ RLt(RZero, parent_mult)
                               THEN RDiv(RDiv(m.a, RHundred), parent_mult)
                          ELSE None
                  IN  [persons |-> persons,
                       paths |-> debug_paths,
                       pending |-> IF local_share # None THEN RMul(parent_mult, local_share) ELSE None,
                       hs |-> hs]
             ELSE LET eff == IF node_eff # None THEN node_eff
                             ELSE IF parsed # None THEN RMul(parent_mult, parsed)
                             ELSE IF m.ok THEN RDiv(m.a, RHundred)
                             ELSE None
                      local_share == IF node_eff # None THEN None ELSE parsed
                      src == IF node_eff # None THEN "node_eff(person)"
                             ELSE IF parsed # None THEN "text(person)"
                             ELSE IF m.ok THEN "efektivne_text(person)"
                             ELSE "unknown"
                  IN  [persons |-> AddToPerson(persons, NameOf(t), eff),
                       paths |-> AppendPath(debug_paths, NameOf(t),
                                            DebugPath(ParentDepth(hs), parent_mult, local_share,
                                                      eff, src, t)),
                       pending |-> pending_next_header_mult,
                       hs |-> hs]

\* persons = compute_effective_persons(lr["lines"]): the call
AggStart ==
    /\ rstatus = "returned" /\ astatus = "idle"
    /\ persons' = <<>>
    /\ debug_paths' = <<>>
    /\ header_stack' = <<>>
    /\ pending_next_header_mult' = None
    /\ aidx' = 1
    /\ astatus' = "scanning"
    /\ UNCHANGED <<pvars, rvars, cvars>>

\* one turn of "for ln in _ensure_list(lines)"
AggLine ==
    /\ astatus = "scanning" /\ aidx <= Len(lines)
    /\ LET ln == lines[aidx]
           r == LineStep(ln.depth, ln.text, ln.effective_pct,
                         parse_pct_from_text(ln.text), Search("EFEKTIVNE_RE", ln.text, 1))
       IN  /\ persons' = r.persons
           /\ debug_paths' = r.paths
           /\ pending_next_header_mult' = r.pending
           /\ header_stack' = r.hs
    /\ aidx' = aidx + 1
    /\ UNCHANGED <<astatus, pvars, rvars, cvars>>

\* the clamp of every total after the loop, and the return
AggClamp ==
    /\ astatus = "scanning" /\ aidx > Len(lines)
    /\ persons' = [n \in DOMAIN persons |->
                     [ownership |-> Clamp01(persons[n].ownership),
                      voting |-> Clamp01(persons[n].voting)]]
    /\ astatus' = "returned"
    /\ UNCHANGED <<debug_paths, header_stack, pending_next_header_mult, aidx, pvars, rvars, cvars>>

AggNext == AggStart \/ AggLine \/ AggClamp

\* the resolution followed by the aggregation of its lines
SpecAgg == ResolveInit /\ [][ResolveNext \/ AggNext]_vars

\* the name of the natural person w
PersonName(w) == <<Word(w)>>
PersonNames == {PersonName("P"), PersonName("Q")}

\* line i is the owner line of the natural person n
IsPersonLineOf(i, n) ==
    LET t == lines[i].text
    IN  /\ chains[i] # <<>>
        /\ ~(Len(t) > 4 /\ t[Len(t)] = RP /\ t[Len(t) - 4] = LP)
        /\ Len(t) >= Len(n) /\ SubSeq(t, 1, Len(n)) = n

RECURSIVE SumContrib(_, _)
\* the sum of the contributions of the lines 1..k of person n
SumContrib(n, k) ==
    IF k = 0 THEN RZero
    ELSE IF IsPersonLineOf(k, n) /\ lines[k].effective_pct # None
         THEN RAdd(SumContrib(n, k - 1), RDiv(lines[k].effective_pct, RHundred))
    ELSE SumContrib(n, k - 1)

\* C5: while the lines are scanned a person's ownership and voting are the
\* plain sum of the contributions of the person's lines read so far (no
\* clamping, no deduplication); after the scan they are min(1, sum).
C5_SumThenClamp ==
    astatus \in {"scanning", "returned"}
    => \A n \in PersonNames :
         LET k == IF astatus = "scanning" THEN aidx - 1 ELSE Len(lines)
             total == SumContrib(n, k)
         IN  IF \E i \in 1..k : IsPersonLineOf(i, n)
             THEN /\ n \in DOMAIN persons
                  /\ persons[n].ownership = (IF astatus = "returned" THEN RMin(ROne, total) ELSE total)
                  /\ persons[n].voting = persons[n].ownership
             ELSE n \notin DOMAIN persons

\* P on two lines, 60 % from the registry and 50 % added by hand: 110 % in
\* the sum, 100 % in the result
C5_Witness ==
    /\ astatus = "returned"
    /\ SumContrib(PersonName("P"), Len(lines)) = <<11, 10>>
    /\ persons[PersonName("P")].ownership = ROne

(***************************************************************************)
(* compute_effective_persons on lines given without the resolver           *)
(***************************************************************************)
\* the local shares, in percent, written into the texts
SharePcts == {<<60, 1>>, <<50, 1>>, <<25, 1>>}

\* f"{name} — {pct:.2f}%"
ShareText(name, pct) == name \o <<Sp, Dash, Sp>> \o Fmt2(pct) \o <<Sym("%")>>

\* the lines of: company A, its owner company B with f1 %, B's owner the
\* person P with f2 %; e1 and e2 tell whether the owner line and the person
\* line carry a pre-computed effective_pct (_line_depth_text takes objects,
\* dicts, pairs and plain text, and only objects can carry one)
TextTree(f1, f2, e1, e2) ==
    <<NodeLine(0, "", CzHeaderText(CompanyName("A"), "A"), None),
      NodeLine(1, "Spolecnici", LabelText("Spolecnici"), None),
      NodeLine(2, "Spolecnici",
               ShareText(CompanyName("B"), f1) \o <<Sp, LP, Word("ICO"), Sp, Ico("B"), RP>>,
               IF e1 THEN f1 ELSE None),
      NodeLine(3, "", CzHeaderText(CompanyName("B"), "B"), None),
      NodeLine(4, "Spolecnici", LabelText("Spolecnici"), None),
      NodeLine(5, "Spolecnici", ShareText(PersonName("P"), f2),
               IF e2 THEN RDiv(RMul(f1, f2), RHundred) ELSE None)>>

\* the local shares on the path to each line of TextTree
TextTreeChains(f1, f2) ==
    <<(<<>>), (<<>>), (<<RDiv(f1, RHundred)>>), (<<>>), (<<>>),
      (<<RDiv(f1, RHundred), RDiv(f2, RHundred)>>)>>

TextLinesInit ==
    /\ ParserIdle
    /\ AggregatorIdle
    /\ ClassifierIdle
    /\ max_depth = MaxDepthCeiling
    /\ manual_overrides = NoManual
    /\ cache = [i \in Companies \cup {JunkIco} |-> NotCached]
    /\ calls = <<>>
    /\ warnings = <<>>
    /\ stack = <<>>
    /\ rstatus = "returned"
    /\ \E f1 \in SharePcts, f2 \in SharePcts, e1 \in BOOLEAN, e2 \in BOOLEAN :
         /\ lines = TextTree(f1, f2, e1, e2)
         /\ chains = TextTreeChains(f1, f2)

\* compute_effective_persons applied to such lines
SpecAggText == TextLinesInit /\ [][AggNext]_vars

RECURSIVE SumExpected(_, _)
\* what the lines 1..k of person n are to contribute: the pre-computed
\* effective percentage, or else the product of the local shares on the path
SumExpected(n, k) ==
    IF k = 0 THEN RZero
    ELSE IF IsPersonLineOf(k, n)
         THEN RAdd(SumExpected(n, k - 1),
                   IF lines[k].effective_pct # None THEN RDiv(lines[k].effective_pct, RHundred)
                   ELSE Prod(chains[k]))
    ELSE SumExpected(n, k - 1)

\* C19: a person line without a pre-computed effective percentage
\* contributes (product of the local shares of the company owner lines above
\* it) * (its own local share): for header, company owner line f1, header,
\* person line f2 the person's ownership is f1 * f2.
C19_TextShareTimesMultiplier ==
    astatus = "returned"
    => \A n \in PersonNames :
         (\E i \in 1..Len(lines) : IsPersonLineOf(i, n))
         => /\ n \in DOMAIN persons
            /\ persons[n].ownership = RMin(ROne, SumExpected(n, Len(lines)))

\* the line the loop of compute_effective_persons takes next goes to the
\* person branch and carries a pre-computed effective percentage
NodeEffPersonNext ==
    /\ astatus = "scanning" /\ aidx <= Len(lines)
    /\ ~IsCompanyHeader(lines[aidx].text) /\ ~EndsWithColon(lines[aidx].text)
    /\ ~HasIco(lines[aidx].text)
    /\ lines[aidx].effective_pct # None

\* C24: a person line with a pre-computed effective percentage e adds e/100
\* to the ownership and to the voting total of its person, whatever the
\* enclosing multiplier and the text of the line, and appends one record to
\* the person's debug_paths: the enclosing header's depth and multiplier, the
\* local share (None on this path), the contribution e/100, the source
\* "node_eff(person)" and the text; nobody else's totals or records change.
C24_NodeEffAddsExactly ==
    [][NodeEffPersonNext
       => LET ln == lines[aidx]
              n == NameOf(ln.text)
              e == RDiv(ln.effective_pct, RHundred)
              own == IF n \in DOMAIN persons THEN persons[n].ownership ELSE RZero
              vot == IF n \in DOMAIN persons THEN persons[n].voting ELSE RZero
              dp == IF n \in DOMAIN debug_paths THEN debug_paths[n] ELSE <<>>
          IN  /\ DOMAIN persons' = DOMAIN persons \cup {n}
              /\ DOMAIN debug_paths' = DOMAIN persons'
              /\ persons'[n].ownership = RAdd(own, e)
              /\ persons'[n].voting = RAdd(vot, e)
              /\ debug_paths'[n] =
                   Append(dp, [parent_depth |-> ParentDepth(header_stack'),
                               parent_mult |-> ParentMult(header_stack'),
                               local_share |-> None, eff |-> e,
                               source |-> "node_eff(person)", text |-> ln.text])
              /\ \A o \in DOMAIN persons \ {n} :
                   persons'[o] = persons[o] /\ debug_paths'[o] = debug_paths[o]]_vars

\* a person with two such lines, one of them "50.00%" under the enclosing
\* multiplier 1 that contributed 0.3 and not 0.5
C24_Witness ==
    /\ astatus = "returned"
    /\ \E n \in DOMAIN debug_paths :
         /\ Len(debug_paths[n]) >= 2
         /\ \A k \in 1..Len(debug_paths[n]) : debug_paths[n][k].source = "node_eff(person)"
         /\ \E k \in 1..Len(debug_paths[n]) :
              LET rec == debug_paths[n][k]
              IN  /\ rec.parent_mult = ROne /\ rec.eff = <<3, 10>>
                  /\ \E j \in 1..Len(rec.text) : rec.text[j] = Num(50) /\ rec.text[j + 1] = Sym(".")
                  /\ RLt(<<3, 10>>, persons[n].ownership)

\* the line the loop takes next is the owner line of a company
CompanyOwnerLineNext ==
    /\ astatus = "scanning" /\ aidx <= Len(lines)
    /\ IsOwnerLineAt(aidx) /\ IsEntityOwnerLine(lines[aidx])
    /\ lines[aidx].text[Len(lines[aidx].text) - 3] = Word("ICO")

\* the line the loop takes next is the header of a company
CompanyHeaderNext ==
    /\ astatus = "scanning" /\ aidx <= Len(lines)
    /\ IsHeaderLine(lines[aidx])
    /\ lines[aidx].text[Len(lines[aidx].text) - 3] = Word("ICO")

\* C25: the owner line of a company is a content line: it pushes nothing on
\* header_stack and, when its share is known, leaves the pending multiplier
\* enclosing multiplier * local share; a company header pops the entries
\* with depth >= its own and pushes (its depth, the pending multiplier or
\* else the nearest enclosing multiplier).
C25_OnlyHeadersPush ==
    /\ [][CompanyOwnerLineNext
          => LET ln == lines[aidx]
                 hs == PopFrom(header_stack, IF ln.depth > 2 THEN ln.depth - 2 ELSE 0)
                 local == chains[aidx][Len(chains[aidx])]
             IN  /\ header_stack' = hs
                 /\ ln.effective_pct # None
                    => pending_next_header_mult' = RMul(ParentMult(hs), local)]_vars
    /\ [][CompanyHeaderNext
          => LET ln == lines[aidx]
                 hs == PopFrom(header_stack, ln.depth - 1)
             IN  header_stack' =
                   Append(hs, <<ln.depth, IF pending_next_header_mult # None
                                          THEN pending_next_header_mult ELSE ParentMult(hs)>>)]_vars

\* the second half of C25 alone
C25_HeaderHalf ==
    [][CompanyHeaderNext
       => LET ln == lines[aidx]
              hs == PopFrom(header_stack, ln.depth - 1)
          IN  header_stack' =
                Append(hs, <<ln.depth, IF pending_next_header_mult # None
                                       THEN pending_next_header_mult ELSE ParentMult(hs)>>)]_vars

\* C26: every key of the map compute_effective_persons returns for the lines
\* of resolve_tree_online is the name part of a person's owner line, and
\* every diagnostic record of a key comes from such a line: headers, label
\* lines, owner lines of companies and of foreign entities, depth-limit
\* lines and lookup-error lines create no entry and add to no total.
C26_OnlyNaturalPersons ==
    astatus = "returned"
    => \A n \in DOMAIN persons :
         /\ \E i \in 1..Len(lines) : IsPersonLineAt(i) /\ NameOf(lines[i].text) = n
         /\ \A k \in 1..Len(debug_paths[n]) :
              \E i \in 1..Len(lines) : IsPersonLineAt(i) /\ lines[i].text = debug_paths[n][k].text

\* the same for resolutions without foreign entities, depth-limit lines and
\* lookup-error lines
C26_DomesticOnly ==
    (astatus = "returned" /\ \A i \in 1..Len(lines) :
        /\ ~IsDepthLimitLine(lines[i]) /\ ~IsErrorLine(lines[i])
        /\ \A j \in 1..Len(lines[i].text) : lines[i].text[j] # Word("ID"))
    => \A n \in DOMAIN persons :
         \E i \in 1..Len(lines) : IsPersonLineAt(i) /\ NameOf(lines[i].text) = n

(***************************************************************************)
(* UBO classification (app.py: ubo_form and its submitted branch)          *)
(***************************************************************************)
MaxManualPersons == 1

ManualNamePool == <<"M", "N", "O">>
ManualNames == {PersonName(ManualNamePool[i]) : i \in 1..MaxManualPersons}

Share(own, vot) == [ownership |-> own, voting |-> vot]

\* results of compute_effective_persons the form is opened with
PersonsChoices ==
    {<<>>,
     PersonName("P") :> Share(<<4, 5>>, <<4, 5>>),
     PersonName("P") :> Share(<<1, 3>>, <<1, 3>>) @@ PersonName("Q") :> Share(<<1, 4>>, <<1, 4>>)}

\* values typed into the two percentage fields of a person
FieldChoices ==
    {[cap_pct |-> <<25, 1>>, vote_pct |-> <<25, 1>>],
     [cap_pct |-> <<2501, 100>>, vote_pct |-> <<10, 1>>],
     [cap_pct |-> <<10, 1>>, vote_pct |-> <<2501, 100>>],
     [cap_pct |-> <<20, 1>>, vote_pct |-> <<10, 1>>],
     [cap_pct |-> <<10, 1>>, vote_pct |-> <<20, 1>>]}

Flags(veto, org_majority, substitute_ubo) ==
    [veto |-> veto, org_majority |-> org_majority, substitute_ubo |-> substitute_ubo]

FlagChoices ==
    {Flags(FALSE, FALSE, FALSE), Flags(TRUE, FALSE, FALSE),
     Flags(FALSE, TRUE, FALSE), Flags(FALSE, FALSE, TRUE)}

\* the manual persons tried: percentages and flags
ManualPersonChoices ==
    {[cap_pct |-> <<2501, 100>>, vote_pct |-> <<10, 1>>, flags |-> Flags(FALSE, FALSE, FALSE)],
     [cap_pct |-> <<10, 1>>, vote_pct |-> <<20, 1>>, flags |-> Flags(FALSE, FALSE, FALSE)],
     [cap_pct |-> RZero, vote_pct |-> RZero, flags |-> Flags(TRUE, TRUE, TRUE)]}

ThresholdChoices == {<<25, 1>>, <<10, 1>>}

PersonVals(cap, vote, flags) ==
    [cap |-> cap, vote |-> vote, veto |-> flags.veto, org_majority |-> flags.org_majority,
     substitute_ubo |-> flags.substitute_ubo]

\* the fields of ubo_form as they are first shown for a person
FormDefault(info) ==
    [cap_pct |-> Round2(RMul(info.ownership, RHundred)),
     vote_pct |-> Round2(RMul(info.voting, RHundred)),
     flags |-> Flags(FALSE, FALSE, FALSE)]

ClassifyInit ==
    /\ ParserIdle
    /\ ResolverIdle
    /\ persons \in PersonsChoices
    /\ debug_paths = <<>>
    /\ header_stack = <<>>
    /\ pending_next_header_mult = None
    /\ aidx = 1
    /\ astatus = "returned"
    /\ form = [n \in DOMAIN persons |-> FormDefault(persons[n])]
    /\ manual_persons = <<>>
    /\ threshold_pct = <<25, 1>>
    /\ block_members = {}
    /\ final_persons = <<>>
    /\ ubo = {}
    /\ reasons = <<>>
    /\ totals = <<>>
    /\ cstatus = "form"
    /\ SessionIdle
    /\ GatewayIdle

\* the user changes the fields of one computed person
\* the two number fields and the three checkboxes of a person, typed over
EditPersonWith(fields, flags) ==
    /\ cstatus = "form"
    /\ \E n \in DOMAIN form, v \in fields, f \in flags :
         form' = [form EXCEPT ![n] = [cap_pct |-> v.cap_pct, vote_pct |-> v.vote_pct, flags |-> f]]
    /\ UNCHANGED <<manual_persons, threshold_pct, block_members, final_persons, ubo, reasons,
                   totals, cstatus, pvars, rvars, avars, svars, gvars>>

EditPerson == EditPersonWith(FieldChoices, FlagChoices)

\* manual_persons[manual_name.strip()] = {cap/100, vote/100, flags}
AddManualPersonWith(names, choices) ==
    /\ cstatus = "form"
    /\ \E n \in names, m \in choices :
         manual_persons' =
             [k \in DOMAIN manual_persons \cup {n} |->
                 IF k = n THEN PersonVals(RDiv(m.cap_pct, RHundred), RDiv(m.vote_pct, RHundred), m.flags)
                 ELSE manual_persons[k]]
    /\ UNCHANGED <<form, threshold_pct, block_members, final_persons, ubo, reasons,
                   totals, cstatus, pvars, rvars, avars, svars, gvars>>

\* "Přidat osobu manuálně"
AddManualPerson == AddManualPersonWith(ManualNames, ManualPersonChoices)

\* "Odebrat": manual_persons.pop(name); the name leaves the block's options
RemoveManualPerson ==
    /\ cstatus = "form"
    /\ \E n \in DOMAIN manual_persons :
         /\ manual_persons' = [k \in DOMAIN manual_persons \ {n} |-> manual_persons[k]]
         /\ block_members' = block_members \ {n}
    /\ UNCHANGED <<form, threshold_pct, final_persons, ubo, reasons,
                   totals, cstatus, pvars, rvars, avars, svars, gvars>>

\* the threshold field
SetThreshold ==
    /\ cstatus = "form"
    /\ \E t \in ThresholdChoices : threshold_pct' = t
    /\ UNCHANGED <<form, manual_persons, block_members, final_persons, ubo, reasons,
                   totals, cstatus, pvars, rvars, avars, svars, gvars>>

\* the multiselect of the voting block: its options are all_names
SelectBlock ==
    /\ cstatus = "form"
    /\ \E b \in SUBSET (DOMAIN persons \cup DOMAIN manual_persons) : block_members' = b
    /\ UNCHANGED <<form, manual_persons, threshold_pct, final_persons, ubo, reasons,
                   totals, cstatus, pvars, rvars, avars, svars, gvars>>

RECURSIVE SumOver(_, _)
\* sum(f[n] for n in S)
SumOver(S, f) ==
    IF S = {} THEN RZero
    ELSE LET n == CHOOSE x \in S : TRUE
         IN  RAdd(f[n], SumOver(S \ {n}, f))

\* the comparison with the threshold that also accepts equality
ReachesThreshold(x, thr) == RLe(thr, x)

\* "cap > thr", "vote > thr", "block_total > thr"
Exceeds(x, thr) == RLt(thr, x)

\* the rules as an if / elif chain: only the first rule that matches counts
OwnReasonsFirstMatch(vals, thr) ==
    IF Exceeds(vals.cap, thr) THEN <<"cap">>
    ELSE IF Exceeds(vals.vote, thr) THEN <<"vote">>
    ELSE IF vals.veto THEN <<"veto">>
    ELSE IF vals.org_majority THEN <<"org_majority">>
    ELSE IF vals.substitute_ubo THEN <<"substitute_ubo">>
    ELSE <<>>

\* the reasons the loop over final_persons adds for one person, in its order
OwnReasons(vals, thr) ==
    (IF Exceeds(vals.cap, thr) THEN <<"cap">> ELSE <<>>)
    \o (IF Exceeds(vals.vote, thr) THEN <<"vote">> ELSE <<>>)
    \o (IF vals.veto THEN <<"veto">> ELSE <<>>)
    \o (IF vals.org_majority THEN <<"org_majority">> ELSE <<>>)
    \o (IF vals.substitute_ubo THEN <<"substitute_ubo">> ELSE <<>>)

\* sum(final_persons.get(n, {"vote": 0.0})["vote"] for n in block_members) if block_members else 0.0
BlockTotal(fp, members) ==
    SumOver(members, [n \in members |-> IF n \in DOMAIN fp THEN fp[n].vote ELSE RZero])

\* a voting block that adds only the members who exceed the threshold themselves
BlockAddsOnlyLarge(fp, members, thr) ==
    IF members # {} /\ Exceeds(BlockTotal(fp, members), thr)
    THEN {n \in members \cap DOMAIN fp : Exceeds(fp[n].vote, thr)}
    ELSE {}

\* "if block_members and block_total > thr: for n in block_members: if n in final_persons"
BlockAdds(fp, members, thr) ==
    IF members # {} /\ Exceeds(BlockTotal(fp, members), thr)
    THEN members \cap DOMAIN fp
    ELSE {}

\* the block's members get their reason but no entry in ubo
UboNamesOwnOnly(fp, thr, added) == {n \in DOMAIN fp : OwnReasons(fp[n], thr) # <<>>}

\* "if is_ubo: ubo[n] = vals" and "ubo[n] = final_persons[n]" for the block
UboNames(fp, thr, added) == {n \in DOMAIN fp : OwnReasons(fp[n], thr) # <<>>} \cup added

TOL == <<1, 1000>>

\* abs(total - 1.0) <= TOL
WithinTol(total) ==
    IF RLe(ROne, total) THEN RLe(total, RAdd(ROne, TOL)) ELSE RLe(ROne, RAdd(total, TOL))

\* "for n, v in edited_cap_pct.items(): overrides_cap[n] = v / 100.0"
StoreOverrides(ov, edited) ==
    [n \in DOMAIN ov \cup DOMAIN edited |->
        IF n \in DOMAIN edited THEN RDiv(edited[n], RHundred) ELSE ov[n]]

\* final_persons: the computed persons with the form's values, then the manual persons
FinalPersons ==
    [n \in DOMAIN persons \cup DOMAIN manual_persons |->
        IF n \in DOMAIN manual_persons THEN manual_persons[n]
        ELSE PersonVals(RDiv(form[n].cap_pct, RHundred), RDiv(form[n].vote_pct, RHundred),
                        form[n].flags)]

\* "Vyhodnotit skutečné majitele": the submitted branch
Submit ==
    /\ cstatus = "form"
    /\ LET fp == FinalPersons
           thr == RDiv(threshold_pct, RHundred)
           added == BlockAdds(fp, block_members, thr)
           rs == [n \in DOMAIN fp |->
                    OwnReasons(fp[n], thr) \o (IF n \in added THEN <<"block">> ELSE <<>>)]
       IN  /\ final_persons' = fp
           /\ totals' = [cap_ok |-> WithinTol(SumOver(DOMAIN fp, [n \in DOMAIN fp |-> Clamp01(fp[n].cap)])),
                         vote_ok |-> WithinTol(SumOver(DOMAIN fp, [n \in DOMAIN fp |-> Clamp01(fp[n].vote)]))]
           /\ ubo' = UboNames(fp, thr, added)
           /\ reasons' = [n \in {k \in DOMAIN fp : rs[k] # <<>>} |-> rs[n]]
    /\ threshold_pct_last' = threshold_pct
    /\ block_members_last' = block_members
    /\ block_name_last' = block_name
    /\ ubo_overrides' = StoreOverrides(ubo_overrides, [n \in DOMAIN form |-> form[n].vote_pct])
    /\ ubo_cap_overrides' = StoreOverrides(ubo_cap_overrides, [n \in DOMAIN form |-> form[n].cap_pct])
    /\ cstatus' = "evaluated"
    /\ UNCHANGED <<form, manual_persons, threshold_pct, block_members, block_name,
                   manual_company_owners, xml, at_export, sstatus, pvars, rvars, avars, gvars>>

ClassifyNext ==
    \/ EditPerson \/ AddManualPerson \/ RemoveManualPerson \/ SetThreshold \/ SelectBlock
    \/ Submit

SpecClassify == ClassifyInit /\ [][ClassifyNext]_vars

(***************************************************************************)
(* Properties of the classification                                        *)
(***************************************************************************)
ReasonsOf(n) == IF n \in DOMAIN reasons THEN reasons[n] ELSE <<>>
HasReason(n, r) == \E i \in 1..Len(ReasonsOf(n)) : ReasonsOf(n)[i] = r

\* the person's fraction, in percent, is strictly above the threshold field
OverThresholdPct(x) == RLt(threshold_pct, RMul(x, RHundred))
AtThresholdPct(x) == RMul(x, RHundred) = threshold_pct

\* the votes of the block's members, in percent, are strictly above the threshold field
BlockOverThreshold ==
    /\ block_members # {}
    /\ OverThresholdPct(SumOver(block_members, [n \in block_members |-> final_persons[n].vote]))

NoOtherRule(n) ==
    /\ ~final_persons[n].veto /\ ~final_persons[n].org_majority /\ ~final_persons[n].substitute_ubo
    /\ ~(n \in block_members /\ BlockOverThreshold)

\* C8: the threshold is strict.  A person whose capital fraction is above
\* the threshold is in the UBO set with a capital reason, a person whose
\* capital fraction equals the threshold or is below it has no capital
\* reason and, matching no other rule, is not in the UBO set; the same for
\* the voting fraction.
C8_StrictThreshold ==
    cstatus = "evaluated"
    => \A n \in DOMAIN final_persons :
         LET v == final_persons[n]
         IN  /\ OverThresholdPct(v.cap) => n \in ubo /\ HasReason(n, "cap")
             /\ OverThresholdPct(v.vote) => n \in ubo /\ HasReason(n, "vote")
             /\ ~OverThresholdPct(v.cap) => ~HasReason(n, "cap")
             /\ ~OverThresholdPct(v.vote) => ~HasReason(n, "vote")
             /\ (~OverThresholdPct(v.cap) /\ ~OverThresholdPct(v.vote) /\ NoOtherRule(n))
                => n \notin ubo

\* P holds exactly the threshold and is no UBO, M holds 25.01 % and is one
C8_Witness ==
    /\ cstatus = "evaluated"
    /\ threshold_pct = <<25, 1>>
    /\ PersonName("P") \in DOMAIN final_persons
    /\ AtThresholdPct(final_persons[PersonName("P")].cap)
    /\ AtThresholdPct(final_persons[PersonName("P")].vote)
    /\ PersonName("P") \notin ubo
    /\ PersonName("M") \in ubo
    /\ final_persons[PersonName("M")].cap = <<2501, 10000>>
    /\ reasons[PersonName("M")] = <<"cap">>

\* C9: when the votes of the block's members sum to more than the
\* threshold, every member is in the UBO set with a block reason, whatever
\* the member's own fractions; otherwise nobody has a block reason and the
\* UBO set holds only persons who match a rule themselves.
C9_VotingBlock ==
    cstatus = "evaluated"
    => IF BlockOverThreshold
       THEN \A n \in block_members : n \in ubo /\ HasReason(n, "block")
       ELSE \A n \in DOMAIN final_persons :
              /\ ~HasReason(n, "block")
              /\ n \in ubo => \/ OverThresholdPct(final_persons[n].cap)
                              \/ OverThresholdPct(final_persons[n].vote)
                              \/ final_persons[n].veto
                              \/ final_persons[n].org_majority
                              \/ final_persons[n].substitute_ubo

\* votes of 10 % and 20 % against a threshold of 25 %: both are UBOs by the block alone
C9_Witness ==
    /\ cstatus = "evaluated"
    /\ threshold_pct = <<25, 1>>
    /\ block_members = {PersonName("P"), PersonName("Q")}
    /\ final_persons[PersonName("P")].vote = <<1, 10>>
    /\ final_persons[PersonName("Q")].vote = <<1, 5>>
    /\ reasons[PersonName("P")] = <<"block">>
    /\ reasons[PersonName("Q")] = <<"block">>
    /\ ubo = {PersonName("P"), PersonName("Q")}

\* how often reason r stands in the reasons of n
ReasonCount(n, r) == Cardinality({i \in 1..Len(ReasonsOf(n)) : ReasonsOf(n)[i] = r})

\* the five rules of a person, each with the reason it adds
RuleHolds(n, r) ==
    CASE r = "cap" -> OverThresholdPct(final_persons[n].cap)
      [] r = "vote" -> OverThresholdPct(final_persons[n].vote)
      [] r = "veto" -> final_persons[n].veto
      [] r = "org_majority" -> final_persons[n].org_majority
      [] r = "substitute_ubo" -> final_persons[n].substitute_ubo

RuleNames == {"cap", "vote", "veto", "org_majority", "substitute_ubo"}

\* C18: the five rules are evaluated independently and joined by OR.  A
\* person for whom at least one rule holds is in the UBO set, every rule
\* that holds adds exactly one reason and a rule that does not hold adds
\* none, and a person in the UBO set matches a rule or belongs to the voting
\* block; the fractions (0 included) do not matter to the three flags.
C18_RulesByOr ==
    cstatus = "evaluated"
    => \A n \in DOMAIN final_persons :
         /\ \A r \in RuleNames : ReasonCount(n, r) = IF RuleHolds(n, r) THEN 1 ELSE 0
         /\ (\E r \in RuleNames : RuleHolds(n, r)) => n \in ubo
         /\ Len(ReasonsOf(n)) = Cardinality({r \in RuleNames : RuleHolds(n, r)})
                                + ReasonCount(n, "block")
         /\ n \in ubo => (\E r \in RuleNames : RuleHolds(n, r)) \/ HasReason(n, "block")

\* M, added by hand with 0 % and 0 % and all three flags, is a UBO with
\* three reasons; Q with 25 % and 25 % against a threshold of 10 % and a
\* veto right has three as well
C18_Witness ==
    /\ cstatus = "evaluated"
    /\ threshold_pct = <<10, 1>>
    /\ {PersonName("M"), PersonName("Q")} \subseteq DOMAIN reasons
    /\ final_persons[PersonName("M")].cap = RZero
    /\ final_persons[PersonName("M")].vote = RZero
    /\ PersonName("M") \in ubo
    /\ reasons[PersonName("M")] = <<"veto", "org_majority", "substitute_ubo">>
    /\ reasons[PersonName("Q")] = <<"cap", "vote", "veto">>

\* C28: after a classification ubo and reasons have the same keys, every key
\* has at least one reason, every key is a key of final_persons, and a
\* member of the block that is not in final_persons has neither.
C28_ReasonsMatchUbo ==
    cstatus = "evaluated"
    => /\ DOMAIN reasons = ubo
       /\ \A n \in ubo : Len(reasons[n]) >= 1
       /\ ubo \subseteq DOMAIN final_persons
       /\ \A n \in block_members \ DOMAIN final_persons : n \notin ubo /\ n \notin DOMAIN reasons

\* three persons: one whose only reason is the block, one with two reasons
\* of their own and the block's, one without any reason
C28_Witness ==
    /\ cstatus = "evaluated"
    /\ \E n \in ubo : reasons[n] = <<"block">>
    /\ \E n \in ubo : Len(reasons[n]) = 3 /\ reasons[n][3] = "block"
    /\ \E n \in DOMAIN final_persons : n \notin ubo /\ n \notin DOMAIN reasons

(***************************************************************************)
(* The session across evaluations, do_resolve, export and import (app.py)  *)
(***************************************************************************)
\* results of compute_effective_persons in the sessions followed here
SessionPersons ==
    {PersonName("P") :> Share(<<25004, 100000>>, <<25004, 100000>>),
     PersonName("P") :> Share(<<1, 3>>, <<1, 3>>) @@ PersonName("Q") :> Share(<<1, 4>>, <<1, 4>>)}

SessionFields ==
    {[cap_pct |-> <<2501, 100>>, vote_pct |-> <<10, 1>>],
     [cap_pct |-> <<10, 1>>, vote_pct |-> <<20, 1>>]}

SessionFlags == {Flags(FALSE, FALSE, FALSE), Flags(TRUE, FALSE, TRUE)}

\* a manual person may carry the name of a computed person
SessionManualNames == {PersonName("P"), PersonName("Q")}

SessionManualChoices ==
    {[cap_pct |-> <<10, 1>>, vote_pct |-> <<20, 1>>, flags |-> Flags(FALSE, FALSE, FALSE)],
     [cap_pct |-> RZero, vote_pct |-> RZero, flags |-> Flags(TRUE, TRUE, TRUE)]}

BlockNames == {"Rodina", ""}

\* the default taken from the newly aggregated value, whatever is stored
FormDefaultNew(ov_cap, ov_vote, info, name) ==
    [cap_pct |-> Round2(RMul(info.ownership, RHundred)),
     vote_pct |-> Round2(RMul(info.voting, RHundred)),
     flags |-> Flags(FALSE, FALSE, FALSE)]

\* overrides_cap.get(name, info["ownership"]) * 100.0, shown as float(f"{...:.2f}")
FormDefaultWith(ov_cap, ov_vote, info, name) ==
    [cap_pct |-> Round2(RMul(IF name \in DOMAIN ov_cap THEN ov_cap[name] ELSE info.ownership,
                             RHundred)),
     vote_pct |-> Round2(RMul(IF name \in DOMAIN ov_vote THEN ov_vote[name] ELSE info.voting,
                              RHundred)),
     flags |-> Flags(FALSE, FALSE, FALSE)]

\* the form's fields built anew for the persons ps
FreshForm(ov_cap, ov_vote, ps) ==
    [n \in DOMAIN ps |-> FormDefaultWith(ov_cap, ov_vote, ps[n], n)]

SessionInit ==
    /\ ParserIdle
    /\ ResolverIdle
    /\ GatewayIdle
    /\ SessionIdle
    /\ persons \in SessionPersons
    /\ debug_paths = <<>>
    /\ header_stack = <<>>
    /\ pending_next_header_mult = None
    /\ aidx = 1
    /\ astatus = "returned"
    /\ form = FreshForm(<<>>, <<>>, persons)
    /\ manual_persons = <<>>
    /\ threshold_pct = <<25, 1>>
    /\ block_members = {}
    /\ final_persons = <<>>
    /\ ubo = {}
    /\ reasons = <<>>
    /\ totals = <<>>
    /\ cstatus = "form"

\* "Rozkrýt strukturu": do_resolve and the run of the page that follows it.
\* do_resolve writes last_result alone; the page then aggregates the new
\* lines and shows the form again: a field whose widget key (index and
\* name) was on the page before keeps what it held or is built anew from
\* its default, a field that is new is built from its default.  The ubo and
\* reasons of the evaluation before are locals of that run and are gone.
DoResolve ==
    /\ cstatus \in {"form", "evaluated"}
    /\ \E ps \in SessionPersons, keep \in BOOLEAN :
         /\ persons' = ps
         /\ form' = [n \in DOMAIN ps |->
                       IF keep /\ n \in DOMAIN form THEN form[n]
                       ELSE FormDefaultWith(ubo_cap_overrides, ubo_overrides, ps[n], n)]
    /\ block_members' = block_members \cap (DOMAIN persons' \cup DOMAIN manual_persons)
    /\ ubo' = {}
    /\ reasons' = <<>>
    /\ totals' = <<>>
    /\ cstatus' = "form"
    /\ UNCHANGED <<debug_paths, header_stack, pending_next_header_mult, aidx, astatus,
                   manual_persons, threshold_pct, final_persons, svars, pvars, rvars, gvars>>

\* classify, resolve again, classify, with a manual person named as a computed one
SessionNext ==
    \/ EditPersonWith(SessionFields, SessionFlags)
    \/ AddManualPersonWith(SessionManualNames, SessionManualChoices)
    \/ Submit
    \/ DoResolve

SpecSession == SessionInit /\ [][SessionNext]_vars

\* C30: an evaluation stores a capital and a voting override, the form's
\* value / 100, for every computed person, uses that override as the
\* person's fraction, and takes the whole record of a manual person, flags
\* included, for a name that is both computed and manual; do_resolve leaves
\* ubo_overrides, ubo_cap_overrides, manual_persons and final_persons as
\* they are, and the form it leads to shows, for a person with a stored
\* override, that override or what the field held, never the new aggregate.
C30_OverridesSurviveResolve ==
    /\ [][(cstatus = "form" /\ cstatus' = "evaluated")
          => /\ \A n \in DOMAIN persons :
                  /\ n \in DOMAIN ubo_cap_overrides' /\ n \in DOMAIN ubo_overrides'
                  /\ ubo_cap_overrides'[n] = RDiv(form[n].cap_pct, RHundred)
                  /\ ubo_overrides'[n] = RDiv(form[n].vote_pct, RHundred)
             /\ \A n \in DOMAIN persons \ DOMAIN manual_persons :
                  /\ final_persons'[n].cap = ubo_cap_overrides'[n]
                  /\ final_persons'[n].vote = ubo_overrides'[n]
             /\ \A n \in DOMAIN manual_persons : final_persons'[n] = manual_persons[n]]_vars
    /\ [][(persons' # persons \/ (cstatus = "evaluated" /\ cstatus' = "form"))
          => /\ UNCHANGED <<ubo_overrides, ubo_cap_overrides, manual_persons, final_persons>>
             /\ \A n \in DOMAIN persons' \cap DOMAIN ubo_cap_overrides :
                  /\ form'[n].cap_pct \in
                       {Round2(RMul(ubo_cap_overrides[n], RHundred))}
                       \cup (IF n \in DOMAIN form THEN {form[n].cap_pct} ELSE {})
                  /\ form'[n].vote_pct \in
                       {Round2(RMul(ubo_overrides[n], RHundred))}
                       \cup (IF n \in DOMAIN form THEN {form[n].vote_pct} ELSE {})]_vars

\* the second evaluation: P was evaluated at 25.00 %, the new resolution
\* gives P one third, and P is evaluated at 25.00 % again; Q is computed and
\* manual, and its record is the manual one with all three flags
C30_Witness ==
    /\ cstatus = "evaluated"
    /\ PersonName("Q") \in DOMAIN persons /\ PersonName("Q") \in DOMAIN manual_persons
    /\ persons[PersonName("P")].ownership = <<1, 3>>
    /\ final_persons[PersonName("P")].cap = <<1, 4>>
    /\ ubo_cap_overrides[PersonName("P")] = <<1, 4>>
    /\ final_persons[PersonName("Q")] = manual_persons[PersonName("Q")]
    /\ final_persons[PersonName("Q")].veto /\ ~form[PersonName("Q")].flags.veto

\* a computed person whose two fields hold the form's default for the
\* aggregated values and who is not replaced by a manual person
Unedited(n) ==
    /\ n \in DOMAIN persons /\ n \notin DOMAIN manual_persons
    /\ form[n].cap_pct = Round2(RMul(persons[n].ownership, RHundred))
    /\ form[n].vote_pct = Round2(RMul(persons[n].voting, RHundred))

\* C29: for a computed person whose fields were not edited, the evaluation
\* gives the capital (voting) reason exactly when the aggregated capital
\* (voting) fraction is strictly above the threshold: the way through the
\* form's default and the stored override changes the side of no fraction.
C29_RoundTripKeepsSide ==
    cstatus = "evaluated"
    => \A n \in DOMAIN persons :
         Unedited(n)
         => LET thr == RDiv(threshold_pct, RHundred)
            IN  /\ Exceeds(persons[n].ownership, thr) <=> (n \in ubo /\ HasReason(n, "cap"))
                /\ Exceeds(persons[n].voting, thr) <=> (n \in ubo /\ HasReason(n, "vote"))

\* one direction of C29: no fraction at or below the threshold gets a
\* threshold reason
C29_NeverPromotes ==
    cstatus = "evaluated"
    => \A n \in DOMAIN persons :
         Unedited(n)
         => LET thr == RDiv(threshold_pct, RHundred)
            IN  /\ (n \in ubo /\ HasReason(n, "cap")) => Exceeds(persons[n].ownership, thr)
                /\ (n \in ubo /\ HasReason(n, "vote")) => Exceeds(persons[n].voting, thr)

\* the text of an XML element or attribute: str(x) of a float, whose digits
\* float() reads back to the same value, or a string
FloatText(x) == [k |-> "float", v |-> x, s |-> ""]
Text(str) == [k |-> "str", v |-> RZero, s |-> str]

\* _safe_text of a bool: str(True) = "True"
BoolText(b) == Text(IF b THEN "True" ELSE "False")

\* str(s).strip().lower()
Lower(str) == CASE str = "True" -> "true" [] str = "False" -> "false" [] OTHER -> str

\* _parse_bool(p.findtext(tag) or "false")
_parse_bool(t) == t.k = "str" /\ Lower(t.s) \in {"1", "true", "yes", "ano"}

\* float(text or default) inside try / except: an empty text reads the
\* default's digits, a text that is no number gives the except branch
FloatOr(t, default, failed) ==
    IF t = Text("") THEN default ELSE IF t.k = "float" THEN t.v ELSE failed

\* manual_company_owners as the page stores it: target IČO -> [{"ico", "share"}]
CompanyOwnerChoices ==
    {<<[ico |-> "A", share |-> RHalf]>>,
     <<[ico |-> "A", share |-> <<1, 3>>], [ico |-> "B", share |-> <<2, 3>>]>>}

\* export_state_to_xml_bytes: the elements that carry the adjustments
export_state_to_xml_bytes ==
    [manual_company_owners |->
        [t \in DOMAIN manual_company_owners |->
            [i \in 1..Len(manual_company_owners[t]) |->
                [ico |-> manual_company_owners[t][i].ico,
                 share |-> FloatText(manual_company_owners[t][i].share)]]],
     manual_persons |->
        [n \in DOMAIN manual_persons |->
            [cap |-> FloatText(manual_persons[n].cap),
             vote |-> FloatText(manual_persons[n].vote),
             veto |-> BoolText(manual_persons[n].veto),
             org_majority |-> BoolText(manual_persons[n].org_majority),
             substitute_ubo |-> BoolText(manual_persons[n].substitute_ubo)]],
     voting |-> [n \in DOMAIN ubo_overrides |-> FloatText(ubo_overrides[n])],
     capital |-> [n \in DOMAIN ubo_cap_overrides |-> FloatText(ubo_cap_overrides[n])],
     threshold_pct_last |-> FloatText(threshold_pct_last),
     block_name |-> Text(block_name_last),
     members |-> block_members_last]

\* the names of d whose stripped form is not empty, mapped through f
ImportedNames(d) == {Strip(n) : n \in {m \in DOMAIN d : Strip(m) # <<>>}}
NamedBy(d, name) == CHOOSE n \in DOMAIN d : Strip(n) = name

\* the flags every person has in the session: a manual person's own, a
\* computed person's checkboxes
PersonFlags ==
    [n \in DOMAIN persons \cup DOMAIN manual_persons |->
        IF n \in DOMAIN manual_persons
        THEN Flags(manual_persons[n].veto, manual_persons[n].org_majority,
                   manual_persons[n].substitute_ubo)
        ELSE form[n].flags]

\* the adjustments of the session
AdjustmentState ==
    [capital |-> ubo_cap_overrides, voting |-> ubo_overrides, flags |-> PersonFlags,
     members |-> block_members_last, block_name |-> block_name_last,
     threshold |-> threshold_pct_last, manual_company_owners |-> manual_company_owners,
     manual_persons |-> manual_persons]

\* the text field with the block's name
SetBlockName ==
    /\ cstatus = "form"
    /\ \E b \in BlockNames : block_name' = b
    /\ UNCHANGED <<form, manual_persons, threshold_pct, block_members, final_persons, ubo, reasons,
                   totals, cstatus, ubo_overrides, ubo_cap_overrides, threshold_pct_last,
                   block_members_last, block_name_last, manual_company_owners, xml, at_export,
                   sstatus, pvars, rvars, avars, gvars>>

\* "Přidat do vlastnické struktury (manuálně)": the parsed pairs are stored
\* for the chosen company and do_resolve runs; the registry being as it
\* was, the persons of this session stay
AddCompanyOwners ==
    /\ cstatus = "form" /\ sstatus = "live"
    /\ \E t \in {"B"}, parsed \in CompanyOwnerChoices :
         manual_company_owners' =
            [k \in DOMAIN manual_company_owners \cup {t} |->
                IF k = t THEN parsed ELSE manual_company_owners[k]]
    /\ UNCHANGED <<form, manual_persons, threshold_pct, block_members, final_persons, ubo, reasons,
                   totals, cstatus, ubo_overrides, ubo_cap_overrides, threshold_pct_last,
                   block_members_last, block_name_last, block_name, xml, at_export,
                   sstatus, pvars, rvars, avars, gvars>>

\* "EXPORT (XML)": the bytes of the page are downloaded, here after an
\* evaluation
ExportXml ==
    /\ sstatus = "live" /\ cstatus = "evaluated" /\ xml = None
    /\ xml' = export_state_to_xml_bytes
    /\ at_export' = AdjustmentState
    /\ UNCHANGED <<form, manual_persons, threshold_pct, block_members, final_persons, ubo, reasons,
                   totals, cstatus, ubo_overrides, ubo_cap_overrides, threshold_pct_last,
                   block_members_last, block_name_last, block_name, manual_company_owners,
                   sstatus, pvars, rvars, avars, gvars>>

\* "Načíst import": import_state_from_xml_bytes, then the automatic
\* do_resolve and the page, in the session that exported (its widgets
\* keep their state) or in a new one (fresh)
import_state_from_xml_bytes ==
    /\ sstatus = "live" /\ xml # None
    /\ manual_company_owners' =
          [t \in {StripId(k) : k \in DOMAIN xml.manual_company_owners} \ {""} |->
              LET comp == xml.manual_company_owners[CHOOSE k \in DOMAIN xml.manual_company_owners :
                                                       StripId(k) = t]
              IN  SelectSeq([i \in 1..Len(comp) |->
                                [ico |-> StripId(comp[i].ico),
                                 share |-> FloatOr(comp[i].share, RZero, RZero)]],
                            LAMBDA o : o.ico # "")]
    /\ manual_persons' =
          [n \in ImportedNames(xml.manual_persons) |->
              LET p == xml.manual_persons[NamedBy(xml.manual_persons, n)]
              IN  PersonVals(FloatOr(p.cap, RZero, RZero), FloatOr(p.vote, RZero, RZero),
                             Flags(_parse_bool(p.veto), _parse_bool(p.org_majority),
                                   _parse_bool(p.substitute_ubo)))]
    /\ ubo_overrides' =
          [n \in ImportedNames(xml.voting) |->
              FloatOr(xml.voting[NamedBy(xml.voting, n)], RZero, RZero)]
    /\ ubo_cap_overrides' =
          [n \in ImportedNames(xml.capital) |->
              FloatOr(xml.capital[NamedBy(xml.capital, n)], RZero, RZero)]
    /\ threshold_pct_last' = FloatOr(xml.threshold_pct_last, <<25, 1>>, <<25, 1>>)
    /\ block_name_last' = (IF xml.block_name.s = "" THEN "Voting Block 1" ELSE xml.block_name.s)
    /\ block_members_last' = {Strip(n) : n \in {m \in xml.members : Strip(m) # <<>>}}
    /\ sstatus' = "imported"
    /\ \E fresh \in BOOLEAN :
         /\ form' = IF fresh THEN FreshForm(ubo_cap_overrides', ubo_overrides', persons) ELSE form
         /\ final_persons' = IF fresh THEN <<>> ELSE final_persons
    /\ threshold_pct' = threshold_pct_last'
    /\ block_members' = block_members_last'
    /\ block_name' = block_name_last'
    /\ ubo' = {}
    /\ reasons' = <<>>
    /\ totals' = <<>>
    /\ cstatus' = "form"
    /\ UNCHANGED <<xml, at_export, pvars, rvars, avars, gvars>>

\* the steps of the page before the import
LiveEdit == sstatus = "live" /\ EditPersonWith(SessionFields, SessionFlags)
LiveAddManualPerson == sstatus = "live" /\ AddManualPersonWith(ManualNames, SessionManualChoices)
LiveSelectBlock == sstatus = "live" /\ SelectBlock
LiveSetBlockName == sstatus = "live" /\ SetBlockName
LiveSetThreshold == sstatus = "live" /\ SetThreshold
LiveSubmit == sstatus = "live" /\ Submit

\* a session that is adjusted, evaluated, exported and imported; it is
\* followed up to the import
PersistNext ==
    \/ LiveEdit
    \/ LiveAddManualPerson
    \/ LiveSelectBlock
    \/ LiveSetBlockName
    \/ LiveSetThreshold
    \/ AddCompanyOwners
    \/ LiveSubmit
    \/ ExportXml
    \/ import_state_from_xml_bytes

SpecPersist == SessionInit /\ [][PersistNext]_vars

\* C21: after import_state_from_xml_bytes of the document
\* export_state_to_xml_bytes produced, the capital and voting overrides, the
\* three flags of every person, the block's members and name, the threshold
\* and the manual company owners are what they were when it was produced.
C21_ExportImportRoundTrip ==
    [][(sstatus = "live" /\ sstatus' = "imported")
       => /\ ubo_cap_overrides' = at_export.capital /\ ubo_overrides' = at_export.voting
          /\ PersonFlags' = at_export.flags
          /\ block_members_last' = at_export.members
          /\ block_name_last' = at_export.block_name
          /\ threshold_pct_last' = at_export.threshold
          /\ manual_company_owners' = at_export.manual_company_owners]_vars

\* the same with the flags of the manual persons alone and for a block name
\* that is not empty
C21_ManualFlagsAndNamedBlock ==
    [][(sstatus = "live" /\ sstatus' = "imported")
       => /\ ubo_cap_overrides' = at_export.capital /\ ubo_overrides' = at_export.voting
          /\ manual_persons' = at_export.manual_persons
          /\ block_members_last' = at_export.members
          /\ at_export.block_name # "" => block_name_last' = at_export.block_name
          /\ threshold_pct_last' = at_export.threshold
          /\ manual_company_owners' = at_export.manual_company_owners]_vars

(***************************************************************************)
(* AresVrClient.get_vr (ares_vr_client.py)                                 *)
(***************************************************************************)
\* AresClientConfig.max_retries
max_retries == 4

\* the identifiers get_vr is called with: characters, "x" for a non-digit
GetVrIcos ==
    {<<"0", "0", "0", "0", "0", "0", "0", "1">>, <<"0", "0", "0", "0", "0", "0", "1">>,
     <<"x", "0", "0", "0", "0", "0", "0", "1", "x">>, <<"0", "0", "0", "0", "0", "0", "0", "2">>}

IsDigitChar(c) == c \in {"0", "1", "2", "3", "4", "5", "6", "7", "8", "9"}

\* re.sub(r"\D+", "", s), and a leading zero for seven digits
norm_ico(s) ==
    LET digits == SelectSeq(s, IsDigitChar)
    IN  IF Len(digits) = 7 THEN <<"0">> \o digits ELSE digits

\* what one requests.get can bring: a status code with a JSON body (two
\* records and the JSON value null), a 200 whose body is not JSON, or an
\* exception (code 0)
Responses ==
    {[code |-> 200, json |-> TRUE, body |-> b] : b \in {"record 1", "record 2", "null"}}
    \cup {[code |-> 200, json |-> FALSE, body |-> "<html>"]}
    \cup {[code |-> c, json |-> TRUE, body |-> ""] : c \in {400, 404, 429, 500, 503}}
    \cup {[code |-> 0, json |-> FALSE, body |-> ""]}

\* r.json() of the body "null": Python's None, stored as the text "null"
NullPayload == [kind |-> "null", text |-> "null"]

\* the payload get_vr builds for a 200 or a 400 / 404 response
PayloadOf(r) ==
    IF r.code = 200 /\ r.json /\ r.body = "null" THEN NullPayload
    ELSE IF r.code = 200 /\ r.json THEN [kind |-> "record", text |-> r.body]
    ELSE IF r.code = 200 THEN [kind |-> "_error", text |-> "Chyba parsovani JSON z ARES VR"]
    ELSE [kind |-> "_error", text |-> IF r.code = 400 THEN "ARES HTTP 400" ELSE "ARES HTTP 404"]

\* _cache_get: json.loads of the row's payload_json, or None without a row
_cache_get(c, ico) == IF ico \in DOMAIN c /\ c[ico] # NullPayload THEN c[ico] ELSE None

\* the cache that also keeps the answers that are to be retried
_cache_put_never(c, ico, payload) == c

\* _cache_put: INSERT ... ON CONFLICT(ico) DO UPDATE
_cache_put(c, ico, payload) == [i \in DOMAIN c \cup {ico} |-> IF i = ico THEN payload ELSE c[i]]

GetVrInit ==
    /\ ParserIdle /\ ResolverIdle /\ AggregatorIdle /\ ClassifierIdle

\* get_vr up to the loop: the normalisation and the cache test
get_vr ==
    /\ gstatus # "running"
    /\ \E raw \in GetVrIcos, force_refresh \in BOOLEAN :
         LET ico == norm_ico(raw)
             cached == _cache_get(gcache, ico)
         IN  /\ gico' = ico
             /\ gforce' = force_refresh
             /\ gattempt' = 0
             /\ grequests' = 0
             /\ IF ~force_refresh /\ cached # None
                THEN gresult' = cached /\ gstatus' = "returned"
                ELSE gresult' = None /\ gstatus' = "running"
    /\ UNCHANGED <<gcache, pvars, rvars, avars, form, manual_persons, threshold_pct, block_members,
                   final_persons, ubo, reasons, totals, cstatus, svars>>

\* one turn of "for attempt in range(self.cfg.max_retries + 1)"
get_vr_attempt ==
    /\ gstatus = "running" /\ gattempt < max_retries + 1
    /\ grequests' = grequests + 1
    /\ \E r \in Responses :
         IF r.code \in {200, 400, 404}
         THEN /\ gcache' = _cache_put(gcache, gico, PayloadOf(r))
              /\ gresult' = PayloadOf(r)
              /\ gstatus' = "returned"
              /\ UNCHANGED gattempt
         ELSE /\ gattempt' = gattempt + 1
              /\ UNCHANGED <<gcache, gresult, gstatus>>
    /\ UNCHANGED <<gico, gforce, pvars, rvars, avars, form, manual_persons, threshold_pct,
                   block_members, final_persons, ubo, reasons, totals, cstatus, svars>>

\* raise RuntimeError("ARES request failed after retries: ...")
get_vr_raise ==
    /\ gstatus = "running" /\ gattempt = max_retries + 1
    /\ gstatus' = "raised"
    /\ UNCHANGED <<gico, gforce, gattempt, grequests, gcache, gresult, pvars, rvars, avars, form,
                   manual_persons, threshold_pct, block_members, final_persons, ubo, reasons,
                   totals, cstatus, svars>>

GetVrNext == get_vr \/ get_vr_attempt \/ get_vr_raise

\* calls of get_vr one after another; a call that has started runs on
SpecGetVr ==
    /\ GetVrInit
    /\ [][GetVrNext]_vars
    /\ WF_vars(get_vr_attempt)
    /\ WF_vars(get_vr_raise)

\* C27: a call without force_refresh for an identifier whose normal form has
\* a row in the cache returns that row's payload (an "_error" payload
\* included) and issues no request; the cache only changes when a call
\* returns the payload of a 200 or of a 400 / 404 response, which becomes the
\* row of the normalized identifier, and rows never disappear; a 429 / 5xx
\* response or an exception leaves the cache as it is and is followed by the
\* next attempt; a call raises only after max_retries + 1 requests, returns
\* no "_error" payload for them, and every call ends.
C27_CachesTerminalAnswersOnly ==
    /\ [][(gstatus # "running" /\ ~gforce' /\ gico' \in DOMAIN gcache)
          => /\ gstatus' = "returned" /\ gresult' = gcache[gico']
             /\ grequests' = 0 /\ gcache' = gcache]_vars
    /\ [][gcache' # gcache
          => /\ gstatus = "running" /\ gstatus' = "returned"
             /\ gcache' = [i \in DOMAIN gcache \cup {gico} |->
                              IF i = gico THEN gresult' ELSE gcache[i]]
             /\ gresult' \in {PayloadOf(r) : r \in {x \in Responses : x.code \in {200, 400, 404}}}]_vars
    /\ [][(gstatus = "running" /\ gstatus' = "returned")
          => gico \in DOMAIN gcache' /\ gcache'[gico] = gresult']_vars
    /\ [][DOMAIN gcache \subseteq DOMAIN gcache']_vars
    /\ [][(gstatus = "running" /\ gstatus' = "running")
          => /\ gcache' = gcache /\ grequests' = grequests + 1
             /\ gattempt' = gattempt + 1]_vars
    /\ [][(gstatus = "running" /\ gstatus' = "raised")
          => grequests = max_retries + 1 /\ gcache' = gcache]_vars
    /\ [](gstatus = "running" => grequests = gattempt /\ grequests <= max_retries + 1)
    /\ (gstatus = "running") ~> (gstatus \in {"returned", "raised"})

\* the same with "has a row" read as "has a row whose payload is not null"
C27_ExceptNullBody ==
    /\ [][(gstatus # "running" /\ ~gforce' /\ gico' \in DOMAIN gcache /\ gcache[gico'] # NullPayload)
          => /\ gstatus' = "returned" /\ gresult' = gcache[gico']
             /\ grequests' = 0 /\ gcache' = gcache]_vars
    /\ [][gcache' # gcache
          => /\ gstatus = "running" /\ gstatus' = "returned"
             /\ gcache' = [i \in DOMAIN gcache \cup {gico} |->
                              IF i = gico THEN gresult' ELSE gcache[i]]
             /\ gresult' \in {PayloadOf(r) : r \in {x \in Responses : x.code \in {200, 400, 404}}}]_vars
    /\ [][(gstatus = "running" /\ gstatus' = "returned")
          => gico \in DOMAIN gcache' /\ gcache'[gico] = gresult']_vars
    /\ [][DOMAIN gcache \subseteq DOMAIN gcache']_vars
    /\ [][(gstatus = "running" /\ gstatus' = "running")
          => /\ gcache' = gcache /\ grequests' = grequests + 1
             /\ gattempt' = gattempt + 1]_vars
    /\ [][(gstatus = "running" /\ gstatus' = "raised")
          => grequests = max_retries + 1 /\ gcache' = gcache]_vars
    /\ [](gstatus = "running" => grequests = gattempt /\ grequests <= max_retries + 1)
    /\ (gstatus = "running") ~> (gstatus \in {"returned", "raised"})

====
